---------------------------- MODULE Spec2Model ----------------------------
(***************************************************************************)
(* A model of miniredis: the RESP frame parser, the buffered connection    *)
(* reader, the command handlers over the shared keyspace (a map behind a   *)
(* reader/writer mutex) and the per-connection loop.                       *)
(*                                                                         *)
(* A byte is a one-character string, a byte slice a sequence of bytes.     *)
(* Indices and lengths are Go's (0-based); Slice(buf, lo, hi) is buf[lo:hi]*)
(* Go's int and int64 are modelled IntBits wide instead of 64, so that the *)
(* wrap-around of the code's additions is within TLC's reach.              *)
(***************************************************************************)
EXTENDS Integers, Sequences, FiniteSets, TLC

\* Width in bits of the modelled int / int64 (64 in the program).
IntBits == 8

\* Capacity the connection's read buffer is created with (4 KiB in the program).
InitialBufSize == 4

\* Capacity of the connection's bufio.Writer (4 KiB in the program).
WriterBufSize == 8

RECURSIVE Pow2(_)
Pow2(n) == IF n = 0 THEN 1 ELSE 2 * Pow2(n - 1)

MaxInt64 == Pow2(IntBits - 1) - 1

\* Two's-complement wrap of an arithmetic result to the int64 range.
WrapInt64(x) == ((x + Pow2(IntBits - 1)) % Pow2(IntBits)) - Pow2(IntBits - 1)

CR == "\r"
LF == "\n"
CRLF == <<CR, LF>>

Digits == <<"0", "1", "2", "3", "4", "5", "6", "7", "8", "9">>
LowerLetters == <<"a", "b", "c", "d", "e", "f", "g", "h", "i", "j", "k", "l", "m",
                  "n", "o", "p", "q", "r", "s", "t", "u", "v", "w", "x", "y", "z">>
UpperLetters == <<"A", "B", "C", "D", "E", "F", "G", "H", "I", "J", "K", "L", "M",
                  "N", "O", "P", "Q", "R", "S", "T", "U", "V", "W", "X", "Y", "Z">>

Range(s) == {s[i] : i \in DOMAIN s}
IndexOf(s, x) == CHOOSE i \in DOMAIN s : s[i] = x

\* buf[lo:hi]
Slice(buf, lo, hi) == SubSeq(buf, lo + 1, hi)

\* body(v) with v bound to the value of e: LET v == e IN body, with e
\* evaluated once however often body uses v
With(e, body(_)) == CHOOSE r \in {body(v) : v \in {e}} : TRUE

RECURSIVE Flatten(_)
Flatten(ss) == IF ss = <<>> THEN <<>> ELSE Head(ss) \o Flatten(Tail(ss))

-----------------------------------------------------------------------------
(* strconv *)

IsDigit(b) == b \in Range(Digits)
DigitVal(b) == IndexOf(Digits, b) - 1

\* The value of a digit string, saturated just above the int64 range.
RECURSIVE DigitsValue(_, _)
DigitsValue(ds, acc) ==
    IF ds = <<>> THEN acc
    ELSE LET v == acc * 10 + DigitVal(Head(ds))
         IN DigitsValue(Tail(ds), IF v > MaxInt64 + 2 THEN MaxInt64 + 2 ELSE v)

\* strconv.ParseInt(s, 10, 64): an optional sign, then decimal digits only;
\* an empty string, a non-digit or a value outside int64 is an error.
ParseInt(s) ==
    IF s = <<>> THEN [ok |-> FALSE, val |-> 0]
    ELSE LET neg == s[1] = "-"
             digits == IF s[1] \in {"+", "-"} THEN Tail(s) ELSE s
         IN IF digits = <<>> \/ \E i \in DOMAIN digits : ~IsDigit(digits[i])
            THEN [ok |-> FALSE, val |-> 0]
            ELSE LET mag == DigitsValue(digits, 0)
                 IN IF neg
                    THEN IF mag > MaxInt64 + 1 THEN [ok |-> FALSE, val |-> 0]
                         ELSE [ok |-> TRUE, val |-> -mag]
                    ELSE IF mag > MaxInt64 THEN [ok |-> FALSE, val |-> 0]
                         ELSE [ok |-> TRUE, val |-> mag]

\* A formatting that keeps the last digit only
FormatNatLastDigit(n) == <<Digits[(n % 10) + 1]>>

\* strconv.Itoa / strconv.FormatInt(n, 10)
RECURSIVE FormatNat(_)
FormatNat(n) == IF n < 10 THEN <<Digits[n + 1]>>
                ELSE FormatNat(n \div 10) \o <<Digits[(n % 10) + 1]>>
FormatInt(n) == IF n < 0 THEN <<"-">> \o FormatNat(-n) ELSE FormatNat(n)

\* strings.ToUpper on one byte, and on a string
ToUpperByte(b) == IF b \in Range(LowerLetters) THEN UpperLetters[IndexOf(LowerLetters, b)] ELSE b
\* A conversion that leaves every letter in its case
ToUpperKeepsCase(s) == s
ToUpper(s) == [i \in DOMAIN s |-> ToUpperByte(s[i])]

-----------------------------------------------------------------------------
(* RESP values *)

\* One record shape for the four RESPData implementations. null tells a nil
\* slice from an empty one. A bulk string's data is a slice of the buffer it
\* was parsed from: off is where the slice starts in that buffer, data the
\* bytes it holds as long as the buffer is not written again.
RESPSimpleString(s) == [type |-> "SimpleString", data |-> s, int |-> 0, elems |-> <<>>, null |-> FALSE, off |-> 0]
RESPBulkString(s) == [type |-> "BulkString", data |-> s, int |-> 0, elems |-> <<>>, null |-> FALSE, off |-> 0]
RESPBulkStringNil == [type |-> "BulkString", data |-> <<>>, int |-> 0, elems |-> <<>>, null |-> TRUE, off |-> 0]
RESPInteger(n) == [type |-> "Integer", data |-> <<>>, int |-> n, elems |-> <<>>, null |-> FALSE, off |-> 0]
RESPArray(es) == [type |-> "Array", data |-> <<>>, int |-> 0, elems |-> es, null |-> FALSE, off |-> 0]
RESPArrayNil == [type |-> "Array", data |-> <<>>, int |-> 0, elems |-> <<>>, null |-> TRUE, off |-> 0]

\* The value v as seen from a buffer that v's own buffer is the slice [d:] of
RECURSIVE Rebase(_, _)
Rebase(v, d) ==
    IF v.type = "Array" THEN [v EXCEPT !.elems = [i \in DOMAIN v.elems |-> Rebase(v.elems[i], d)]]
    ELSE IF v.type = "BulkString" /\ ~v.null THEN [v EXCEPT !.off = v.off + d]
    ELSE v

\* What a parse function returns: (value, consumed, err), consumed being 0
\* wherever the code returns with an error. status is "ok" (err
\* nil), "incomplete" (ErrIncompleteRESPValue), "malformed" (any other error)
\* or "panic" (the call does not return: a run-time fault).
ParseOk(v, n) == [status |-> "ok", value |-> v, consumed |-> n]
ParseFail(st, v, n) == [status |-> st, value |-> v, consumed |-> n]

\* The largest length make([]RESPData, n) allocates; above it makeslice faults.
MaxMakeLen == MaxInt64 \div 16

\* The last index where \r\n is inside the string
CLRFIndexLast(buf) ==
    LET hits == {i \in 0..(Len(buf) - 2) : buf[i + 1] = CR /\ buf[i + 2] = LF}
    IN IF hits = {} THEN -1 ELSE CHOOSE i \in hits : \A j \in hits : i >= j

\* Returns first index where \r\n is inside the string, -1 if none
CLRFIndex(buf) ==
    LET hits == {i \in 0..(Len(buf) - 2) : buf[i + 1] = CR /\ buf[i + 2] = LF}
    IN IF hits = {} THEN -1 ELSE CHOOSE i \in hits : \A j \in hits : i <= j

parseInteger(buf) ==
    With(CLRFIndex(buf), LAMBDA end :
        IF end = -1 THEN ParseFail("incomplete", RESPInteger(0), 0)
        ELSE With(ParseInt(Slice(buf, 1, end)), LAMBDA r :
                IF ~r.ok THEN ParseFail("malformed", RESPInteger(0), 0)
                ELSE ParseOk(RESPInteger(r.val), end + 2)))

\* A parseBulkString that takes -1 alone for the nil bulk string
parseBulkStringMinusOne(buf) ==
    With(parseInteger(buf), LAMBDA length :
       IF length.status # "ok" THEN ParseFail(length.status, RESPBulkStringNil, 0)
       ELSE LET consumed == length.consumed
                parsedLength == length.value.int
                startInd == consumed
                endInd == WrapInt64(startInd + parsedLength)
            IN IF parsedLength = -1 THEN ParseOk(RESPBulkStringNil, consumed)
               ELSE IF parsedLength < 0 THEN ParseFail("malformed", RESPBulkStringNil, 0)
               ELSE IF Len(buf) < WrapInt64(WrapInt64(parsedLength + consumed) + 2)
               THEN ParseFail("incomplete", RESPBulkStringNil, 0)
               ELSE IF endInd < startInd \/ endInd > Len(buf)
               THEN ParseFail("panic", RESPBulkStringNil, 0)
               ELSE ParseOk([RESPBulkString(Slice(buf, startInd, endInd)) EXCEPT !.off = startInd],
                            WrapInt64(WrapInt64(consumed + parsedLength) + 2)))

parseBulkString(buf) ==
    With(parseInteger(buf), LAMBDA length :
       IF length.status # "ok" THEN ParseFail(length.status, RESPBulkStringNil, 0)
       ELSE LET consumed == length.consumed
                parsedLength == length.value.int
                startInd == consumed
                endInd == WrapInt64(startInd + parsedLength)
            IN IF parsedLength < 0 THEN ParseOk(RESPBulkStringNil, consumed)
               ELSE IF Len(buf) < WrapInt64(WrapInt64(parsedLength + consumed) + 2)
               THEN ParseFail("incomplete", RESPBulkStringNil, 0)
               \* buf[startInd:endInd] faults unless startInd <= endInd <= cap(buf);
               \* past the length test endInd <= len(buf) or the sum has wrapped
               ELSE IF endInd < startInd \/ endInd > Len(buf)
               THEN ParseFail("panic", RESPBulkStringNil, 0)
               ELSE ParseOk([RESPBulkString(Slice(buf, startInd, endInd)) EXCEPT !.off = startInd],
                            WrapInt64(WrapInt64(consumed + parsedLength) + 2)))

parseSimpleString(buf) ==
    With(CLRFIndex(buf), LAMBDA end :
        IF end = -1 THEN ParseFail("incomplete", RESPSimpleString(<<>>), 0)
        ELSE ParseOk(RESPSimpleString(Slice(buf, 1, end)), end + 2))

RECURSIVE parseSingleValue(_)
RECURSIVE parseArrayElems(_, _, _, _, _)
RECURSIVE parseArrayElemsKeepsCount(_, _, _, _, _)

\* A loop that, when an element fails, returns what the elements before it
\* have consumed
parseArrayElemsKeepsCount(buf, totalConsumed, i, parsedLength, arr) ==
    IF i >= parsedLength THEN ParseOk(RESPArray(arr), totalConsumed)
    ELSE With(parseSingleValue(Slice(buf, totalConsumed, Len(buf))), LAMBDA r :
            IF r.status # "ok" THEN ParseFail(r.status, RESPArrayNil, totalConsumed)
            ELSE With(<<totalConsumed + r.consumed,
                       Append(arr, Rebase(r.value, totalConsumed))>>, LAMBDA t :
                    parseArrayElemsKeepsCount(buf, t[1], i + 1, parsedLength, t[2])))

\* The loop of parseArray: elements i..parsedLength-1, arr the ones parsed so far
parseArrayElems(buf, totalConsumed, i, parsedLength, arr) ==
    IF i >= parsedLength THEN ParseOk(RESPArray(arr), totalConsumed)
    ELSE With(parseSingleValue(Slice(buf, totalConsumed, Len(buf))), LAMBDA r :
            IF r.status # "ok" THEN ParseFail(r.status, RESPArrayNil, 0)
            ELSE With(<<totalConsumed + r.consumed,
                       Append(arr, Rebase(r.value, totalConsumed))>>, LAMBDA t :
                    parseArrayElems(buf, t[1], i + 1, parsedLength, t[2])))

parseArray(buf) ==
    With(parseInteger(buf), LAMBDA length :
       IF length.status # "ok" THEN ParseFail(length.status, RESPArrayNil, 0)
       ELSE LET parsedLength == length.value.int
            IN IF parsedLength < 0 THEN ParseOk(RESPArrayNil, length.consumed)
               ELSE IF parsedLength > MaxMakeLen THEN ParseFail("panic", RESPArrayNil, 0)
               ELSE parseArrayElems(buf, length.consumed, 0, parsedLength, <<>>))

\* Parses single RESP value from buffer
parseSingleValue(buf) ==
    IF Len(buf) = 0 THEN ParseFail("incomplete", RESPArrayNil, 0)
    ELSE CASE buf[1] = ":" -> parseInteger(buf)
           [] buf[1] = "$" -> parseBulkString(buf)
           [] buf[1] = "+" -> parseSimpleString(buf)
           [] buf[1] = "*" -> parseArray(buf)
           [] OTHER -> ParseFail("malformed", RESPArrayNil, 0)

-----------------------------------------------------------------------------
(* Commands *)

\* RESPCommandType, named by the command's upper-case name
SET == <<"S", "E", "T">>
GET == <<"G", "E", "T">>
ECHO == <<"E", "C", "H", "O">>

RESPCommand(t, args) == [Type |-> t, Args |-> args]

\* A normalization that takes a name it does not know for ECHO
ParseCommandLenient(commandArray) ==
    IF Len(commandArray.elems) = 0
    THEN [cmd |-> RESPCommand(<<>>, <<>>), err |-> "command array length 0"]
    ELSE LET firstArg == commandArray.elems[1]
         IN IF firstArg.type \notin {"SimpleString", "BulkString"}
            THEN [cmd |-> RESPCommand(<<>>, <<>>), err |-> "unknown command type"]
            ELSE LET commandName == ToUpper(firstArg.data)
                 IN IF commandName \in {SET, GET, ECHO}
                    THEN [cmd |-> RESPCommand(commandName, Tail(commandArray.elems)), err |-> ""]
                    ELSE [cmd |-> RESPCommand(ECHO, Tail(commandArray.elems)), err |-> ""]

\* (RESPCommand, error): err is "" for nil
ParseCommand(commandArray) ==
    IF Len(commandArray.elems) = 0
    THEN [cmd |-> RESPCommand(<<>>, <<>>), err |-> "command array length 0"]
    ELSE LET firstArg == commandArray.elems[1]
         IN IF firstArg.type \notin {"SimpleString", "BulkString"}
            THEN [cmd |-> RESPCommand(<<>>, <<>>), err |-> "unknown command type"]
            ELSE LET commandName == ToUpper(firstArg.data)
                 IN IF commandName \in {SET, GET, ECHO}
                    THEN [cmd |-> RESPCommand(commandName, Tail(commandArray.elems)), err |-> ""]
                    ELSE [cmd |-> RESPCommand(<<>>, <<>>), err |-> "unknown command"]

\* (string, error): a nil bulk string converts to the empty string
ExtractString(data) ==
    IF data.type \in {"SimpleString", "BulkString"}
    THEN [str |-> data.data, err |-> ""]
    ELSE [str |-> <<>>, err |-> "expected string, got *miniredis.RESPData"]

\* ([]byte, error): the bulk string's own slice (off: where it starts in the
\* read buffer), nil when it is the nil bulk string; a simple string's bytes are
\* a new slice (off -1)
ExtractByteSlice(data) ==
    IF data.type = "SimpleString"
    THEN [bytes |-> data.data, null |-> FALSE, off |-> -1, err |-> ""]
    ELSE IF data.type = "BulkString"
    THEN [bytes |-> data.data, null |-> data.null,
          off |-> IF data.null THEN -1 ELSE data.off, err |-> ""]
    ELSE [bytes |-> <<>>, null |-> TRUE, off |-> -1,
          err |-> "expected string, got *miniredis.RESPData"]

-----------------------------------------------------------------------------
(* The value model and the keyspace *)

\* time.Time{}: the zero instant, "no expiry"
ZeroTime == 0

\* off and home tell where data's bytes are: off -1, in an array of their own;
\* otherwise at off in a read buffer, home naming it once the value is kept
StringData(bytes, isNil) ==
    [kind |-> "StringData", data |-> bytes, null |-> isNil, int |-> 0, off |-> -1, home |-> <<>>]
IntegerData(n) ==
    [kind |-> "IntegerData", data |-> <<>>, null |-> FALSE, int |-> n, off |-> -1, home |-> <<>>]
\* &StringData{data: b} for a slice b of the read buffer
StringDataOf(b) == [StringData(b.bytes, b.null) EXCEPT !.off = b.off]
\* A record stamped with an expiry
MiniRedisObjectStamped(d, e) == [data |-> d, expiry |-> e + 1]
MiniRedisObject(d, e) == [data |-> d, expiry |-> e]

\* (MiniRedisData, error) as a handler returns it; err is "" for nil
Result(d, e) == [data |-> d, err |-> e]
NoData == StringData(<<>>, TRUE)

\* StringData.Serialize / IntegerData.Serialize
Serialize(d) ==
    IF d.kind = "StringData"
    THEN <<"$">> \o FormatInt(Len(d.data)) \o CRLF \o d.data \o CRLF
    ELSE <<":">> \o FormatInt(d.int) \o CRLF

\* ConcurrentMap.Map as a function on the keys present
MapGet(m, key) == IF key \in DOMAIN m THEN [val |-> m[key], ok |-> TRUE]
                  ELSE [val |-> MiniRedisObject(NoData, ZeroTime), ok |-> FALSE]
\* A Set that inserts only: an existing record is kept
MapSetIfAbsent(m, key, value) == IF key \in DOMAIN m THEN m ELSE m @@ (key :> value)
\* A Set that adds the bytes to those the key already holds
MapSetAppend(m, key, value) ==
    IF key \in DOMAIN m THEN [m EXCEPT ![key].data.data = @ \o value.data.data]
    ELSE m @@ (key :> value)
MapSet(m, key, value) == [k \in DOMAIN m \cup {key} |-> IF k = key THEN value ELSE m[k]]
MapDelete(m, key) == [k \in DOMAIN m \ {key} |-> m[k]]
\* A Get that takes the record out of the map
MapAfterGetTaken(m, key) == [k \in DOMAIN m \ {key} |-> m[k]]
\* c.Map once Get has returned: Get reads c.Map[*key] and assigns nothing
MapAfterGet(m, key) == m
MapUpdate(m, key, fn(_)) == IF key \in DOMAIN m THEN [m EXCEPT ![key] = fn(m[key])] ELSE m

\* val, ok := c.Map[*key], zero being T's zero value
MapLookup(m, key, zero) == IF key \in DOMAIN m THEN [val |-> m[key], ok |-> TRUE]
                           ELSE [val |-> zero, ok |-> FALSE]

\* A Lock that waits for the readers only
LockFreeOfReaders(mu) == mu.readers = {}
\* An RLock that does not wait for the writer
RLockFreeAlways(mu) == TRUE
\* Update under the read lock
TakesLockButUpdate(op) == op \in {"Set", "Delete"}
\* The methods that take c.Mutex.Lock(); Get takes c.Mutex.RLock()
TakesLock(op) == op \in {"Set", "Delete", "Update"}
\* sync.RWMutex: who holds it
RLockFree(mu) == mu.writer = {}
LockFree(mu) == mu.writer = {} /\ mu.readers = {}

-----------------------------------------------------------------------------
(* RESPWriter: w is the bufio.Writer over the connection, [buf, wire, err,  *)
(* fails]: the bytes it holds, the bytes it has written to the socket, its   *)
(* sticky error ("" for nil), and whether the socket refuses writes          *)

NewRESPWriter(fails) == [buf |-> <<>>, wire |-> <<>>, err |-> "", fails |-> fails]

\* bufio.Writer.Flush: the held bytes go to the socket; after an error nothing does
BufFlush(w) ==
    IF w.err # "" \/ w.buf = <<>> THEN w
    ELSE IF w.fails THEN [w EXCEPT !.err = "write"]
    ELSE [w EXCEPT !.wire = @ \o w.buf, !.buf = <<>>]

\* bufio.Writer.Write / WriteString: p is held while there is room; when there
\* is not, the buffer is filled and flushed, or, being empty, passed by
RECURSIVE BufWrite(_, _)
BufWrite(w, p) ==
    IF w.err # "" THEN w
    ELSE IF Len(p) <= WriterBufSize - Len(w.buf) THEN [w EXCEPT !.buf = @ \o p]
    ELSE IF w.buf = <<>>
    THEN IF w.fails THEN [w EXCEPT !.err = "write"] ELSE [w EXCEPT !.wire = @ \o p]
    ELSE With(WriterBufSize - Len(w.buf), LAMBDA n :
            BufWrite(BufFlush([w EXCEPT !.buf = @ \o SubSeq(p, 1, n)]),
                     SubSeq(p, n + 1, Len(p))))

\* A WriteBulkString that takes an empty slice for nil
WriteBulkStringEmptyAsNil(w, b, isNil) ==
    IF isNil \/ b = <<>>
    THEN With(BufWrite(w, <<"$", "-", "1", CR, LF>>), LAMBDA w2 : [w |-> w2, err |-> w2.err])
    ELSE [w |-> BufWrite(BufWrite(BufWrite(BufWrite(BufWrite(w,
                    <<"$">>), FormatInt(Len(b))), CRLF), b), CRLF),
          err |-> ""]

\* The writer's methods return the writer and the error ("" for nil)
WriteBulkString(w, b, isNil) ==
    IF isNil
    THEN With(BufWrite(w, <<"$", "-", "1", CR, LF>>), LAMBDA w2 : [w |-> w2, err |-> w2.err])
    ELSE [w |-> BufWrite(BufWrite(BufWrite(BufWrite(BufWrite(w,
                    <<"$">>), FormatInt(Len(b))), CRLF), b), CRLF),
          err |-> ""]

WriteInteger(w, i) ==
    [w |-> BufWrite(BufWrite(BufWrite(w, <<":">>), FormatInt(i)), CRLF), err |-> ""]

\* A format that puts the message on a line of its own
WriteErrorTwoLines(w, err) ==
    With(BufWrite(w, <<"-", "E", "R", "R", CR, LF, err, CR, LF>>), LAMBDA w2 :
        [w |-> w2, err |-> w2.err])

\* "-ERR %s\r\n" in one Write: the message is carried as one token
WriteError(w, err) ==
    With(BufWrite(w, <<"-", "E", "R", "R", " ", err, CR, LF>>), LAMBDA w2 :
        [w |-> w2, err |-> w2.err])

WriteValue(w, v) ==
    IF v.kind = "StringData" THEN WriteBulkString(w, v.data, v.null)
    ELSE WriteInteger(w, v.int)

-----------------------------------------------------------------------------
(* RESPReader: r is [buffer, readIndex, writeIndex] *)

\* The zero byte make([]byte, n) fills a new buffer with
NUL == "NUL"
Zeros(n) == [i \in 1..n |-> NUL]

NewRESPReader(initialBufferSize) ==
    [buffer |-> Zeros(initialBufferSize), readIndex |-> 0, writeIndex |-> 0]

\* copy(dst[at:], src): the bytes of dst after the copy
CopyInto(dst, at, src) ==
    [i \in 1..Len(dst) |-> IF i > at /\ i <= at + Len(src) THEN src[i - at] ELSE dst[i]]

\* A shift that moves the indices and not the bytes
shiftBufferNoCopy(r) ==
    IF r.readIndex = r.writeIndex THEN [r EXCEPT !.readIndex = 0, !.writeIndex = 0]
    ELSE [r EXCEPT !.readIndex = 0, !.writeIndex = r.writeIndex - r.readIndex]

\* A shift that re-slices the buffer at readIndex instead of copying
shiftBufferReslice(r) ==
    IF r.readIndex = r.writeIndex
    THEN [r EXCEPT !.readIndex = 0, !.writeIndex = 0]
    ELSE IF r.readIndex > 0
    THEN [buffer |-> Slice(r.buffer, r.readIndex, Len(r.buffer)),
          readIndex |-> 0,
          writeIndex |-> r.writeIndex - r.readIndex]
    ELSE r

\* Shifts buffer to start at 0
shiftBuffer(r) ==
    IF r.readIndex = r.writeIndex THEN [r EXCEPT !.readIndex = 0, !.writeIndex = 0]
    ELSE IF r.readIndex > 0
    THEN [buffer |-> CopyInto(r.buffer, 0, Slice(r.buffer, r.readIndex, r.writeIndex)),
          readIndex |-> 0,
          writeIndex |-> r.writeIndex - r.readIndex]
    ELSE r

\* A growth that waits until less than a quarter of the buffer is free
growBufferStrict(r) ==
    LET size == Len(r.buffer)
        used == r.writeIndex - r.readIndex
        free == size - used
    IN IF free < size \div 4
       THEN [buffer |-> CopyInto(Zeros(size * 2), 0, Slice(r.buffer, r.readIndex, r.writeIndex)),
             readIndex |-> 0,
             writeIndex |-> used]
       ELSE r

\* Grows buffer (double size) if it's too full (< 25% space remaining)
growBuffer(r) ==
    LET size == Len(r.buffer)
        used == r.writeIndex - r.readIndex
        free == size - used
    IN IF free <= size \div 4
       THEN [buffer |-> CopyInto(Zeros(size * 2), 0, Slice(r.buffer, r.readIndex, r.writeIndex)),
             readIndex |-> 0,
             writeIndex |-> used]
       ELSE r

\* What the last call of parseSingleValue in a loop returned beside the value
Last(status, consumed) == [status |-> status, consumed |-> consumed]

\* The loop of parseBufferCommands; returns the reader, the commands, the
\* error ("" for nil, "panic" when a parse function faulted), and what the
\* parse that ended the loop returned
RECURSIVE parseBufferLoop(_, _)
parseBufferLoop(r, commands) ==
    IF r.readIndex >= r.writeIndex
    THEN [reader |-> r, commands |-> commands, err |-> "", last |-> Last("", 0)]
    ELSE With(parseSingleValue(Slice(r.buffer, r.readIndex, r.writeIndex)), LAMBDA p :
         With([r EXCEPT !.readIndex = r.readIndex + p.consumed], LAMBDA r2 :
            CASE p.status = "incomplete" ->
                    [reader |-> r, commands |-> commands, err |-> "",
                     last |-> Last(p.status, p.consumed)]
              [] p.status = "panic" ->
                    [reader |-> r, commands |-> commands, err |-> "panic",
                     last |-> Last(p.status, p.consumed)]
              [] p.status = "malformed" ->
                    [reader |-> r, commands |-> commands, err |-> "parsing buffer command",
                     last |-> Last(p.status, p.consumed)]
              [] p.value.type # "Array" ->
                    [reader |-> r2, commands |-> commands,
                     err |-> "error casting value to RESPArray",
                     last |-> Last(p.status, p.consumed)]
              [] OTHER ->
                    With(ParseCommand(Rebase(p.value, r.readIndex)), LAMBDA c :
                       IF c.err # ""
                       THEN [reader |-> r2, commands |-> commands, err |-> "error parsing command",
                             last |-> Last(p.status, p.consumed)]
                       ELSE With(Append(commands, c.cmd), LAMBDA cs : parseBufferLoop(r2, cs)))))

\* A parse that returns after the first command of the buffer
parseBufferCommandsFirst(r) ==
    With(parseBufferLoop(r, <<>>), LAMBDA q :
        IF Len(q.commands) <= 1 THEN q
        ELSE With(parseSingleValue(Slice(r.buffer, r.readIndex, r.writeIndex)), LAMBDA p :
                [reader |-> [r EXCEPT !.readIndex = r.readIndex + p.consumed],
                 commands |-> <<q.commands[1]>>, err |-> "", last |-> Last(p.status, p.consumed)]))

\* Parse all *complete* buffer commands, return as a slice
parseBufferCommands(r) == parseBufferLoop(r, <<>>)

\* r.reader.Read(p) on a connection that holds the bytes avail, or that has
\* ended with end ("EOF", or another error) when avail is empty: (n, err)
ConnRead(p, avail, end) ==
    IF avail = <<>> THEN [data |-> <<>>, err |-> end]
    ELSE [data |-> SubSeq(avail, 1, IF Len(avail) < Len(p) THEN Len(avail) ELSE Len(p)),
          err |-> ""]

\* Reads commands in from r.reader, handles buffering
ReadCommands(r0, avail, end) ==
    With(growBuffer(shiftBuffer(r0)), LAMBDA r1 :
    With(ConnRead(Slice(r1.buffer, r1.writeIndex, Len(r1.buffer)), avail, end), LAMBDA rd :
       IF rd.err = "EOF"
       THEN With(parseBufferCommands(r1), LAMBDA q :
               [q EXCEPT !.err = IF q.err # "" THEN q.err ELSE "EOF"] @@ [n |-> 0])
       ELSE IF rd.err # ""
       THEN [reader |-> r1, commands |-> <<>>, err |-> "reading from reader",
             last |-> Last("", 0), n |-> 0]
       ELSE With([r1 EXCEPT !.buffer = CopyInto(r1.buffer, r1.writeIndex, rd.data),
                            !.writeIndex = r1.writeIndex + Len(rd.data)], LAMBDA r2 :
               parseBufferCommands(r2) @@ [n |-> Len(rd.data)])))

-----------------------------------------------------------------------------
(* The handlers, up to their call into the keyspace *)

\* A handleSet that takes the value from the key's argument
handleSetKeyAsValue(args) ==
    IF Len(args) < 2
    THEN [err |-> "SET command requires at least 2 arguments", key |-> <<>>, data |-> NoData]
    ELSE LET key == ExtractString(args[1])
             value == ExtractByteSlice(args[1])
         IN IF key.err # "" THEN [err |-> "invalid key: " \o key.err, key |-> <<>>, data |-> NoData]
            ELSE [err |-> "", key |-> key.str, data |-> StringData(value.bytes, FALSE)]

\* A handleSet that stores the slice it was given
handleSetNoCopy(args) ==
    IF Len(args) < 2
    THEN [err |-> "SET command requires at least 2 arguments", key |-> <<>>, data |-> NoData]
    ELSE LET key == ExtractString(args[1])
             value == ExtractByteSlice(args[2])
         IN IF key.err # "" THEN [err |-> "invalid key: " \o key.err, key |-> <<>>, data |-> NoData]
            ELSE IF value.err # ""
            THEN [err |-> "invalid value: " \o value.err, key |-> <<>>, data |-> NoData]
            ELSE [err |-> "", key |-> key.str, data |-> StringDataOf(value)]

\* A handleSet whose copy of a nil slice is nil
handleSetKeepsNil(args) ==
    IF Len(args) < 2
    THEN [err |-> "SET command requires at least 2 arguments", key |-> <<>>, data |-> NoData]
    ELSE LET key == ExtractString(args[1])
             value == ExtractByteSlice(args[2])
         IN IF key.err # "" THEN [err |-> "invalid key: " \o key.err, key |-> <<>>, data |-> NoData]
            ELSE IF value.err # ""
            THEN [err |-> "invalid value: " \o value.err, key |-> <<>>, data |-> NoData]
            ELSE [err |-> "", key |-> key.str, data |-> StringData(value.bytes, value.null)]

\* handleSet before store.Set: the error, or the key and the copied value
handleSet(args) ==
    IF Len(args) < 2
    THEN [err |-> "SET command requires at least 2 arguments", key |-> <<>>, data |-> NoData]
    ELSE LET key == ExtractString(args[1])
             value == ExtractByteSlice(args[2])
         IN IF key.err # "" THEN [err |-> "invalid key: " \o key.err, key |-> <<>>, data |-> NoData]
            ELSE IF value.err # ""
            THEN [err |-> "invalid value: " \o value.err, key |-> <<>>, data |-> NoData]
            \* byteSliceCopy := make([]byte, len(value)): never nil
            ELSE [err |-> "", key |-> key.str, data |-> StringData(value.bytes, FALSE)]

\* handleGet before store.Get: the error, or the key
handleGet(args) ==
    IF Len(args) # 1
    THEN [err |-> "GET command requires exactly 1 argument", key |-> <<>>]
    ELSE LET key == ExtractString(args[1])
         IN IF key.err # "" THEN [err |-> "invalid key: " \o key.err, key |-> <<>>]
            ELSE [err |-> "", key |-> key.str]

\* A handleGet that answers a missing key with an empty value
handleGetFoundEmpty(value, exists, t) ==
    IF ~exists THEN [data |-> StringData(<<>>, FALSE), delete |-> FALSE]
    ELSE IF value.expiry # ZeroTime /\ t > value.expiry THEN [data |-> NoData, delete |-> TRUE]
    ELSE [data |-> value.data, delete |-> FALSE]

\* handleGet after store.Get returned (value, exists) at time t: what it
\* returns, and whether it calls store.Delete first
handleGetFound(value, exists, t) ==
    IF ~exists THEN [data |-> NoData, delete |-> FALSE]
    ELSE IF value.expiry # ZeroTime /\ t > value.expiry THEN [data |-> NoData, delete |-> TRUE]
    ELSE [data |-> value.data, delete |-> FALSE]

\* A handleEcho that only asks for an argument to be there
handleEchoAtLeastOne(args) ==
    IF Len(args) < 1 THEN Result(NoData, "ECHO command requires exactly 1 argument")
    ELSE LET arg == ExtractByteSlice(args[1])
         IN IF arg.err # "" THEN Result(NoData, "invalid echo param: " \o arg.err)
            ELSE Result(StringDataOf(arg), "")

handleEcho(args) ==
    IF Len(args) # 1 THEN Result(NoData, "ECHO command requires exactly 1 argument")
    ELSE LET arg == ExtractByteSlice(args[1])
         IN IF arg.err # "" THEN Result(NoData, "invalid echo param: " \o arg.err)
            ELSE Result(StringDataOf(arg), "")

\* A handleSet that reaches the keyspace before it has looked at the value
CallsStoreBeforeValue(cmd) ==
    \/ cmd.Type = SET /\ Len(cmd.Args) >= 2 /\ ExtractString(cmd.Args[1]).err = ""
    \/ cmd.Type = GET /\ handleGet(cmd.Args).err = ""

\* Whether dispatchCommand(cmd) reaches the keyspace
CallsStore(cmd) ==
    \/ cmd.Type = SET /\ handleSet(cmd.Args).err = ""
    \/ cmd.Type = GET /\ handleGet(cmd.Args).err = ""

\* dispatchCommand for a command that returns without reaching the keyspace
dispatchCommand(cmd) ==
    CASE cmd.Type = SET -> Result(NoData, handleSet(cmd.Args).err)
      [] cmd.Type = GET -> Result(NoData, handleGet(cmd.Args).err)
      [] cmd.Type = ECHO -> handleEcho(cmd.Args)
      [] OTHER -> Result(NoData, "unsupported command")

\* A write that puts the reply in front of the buffered ones
WriteResultInFront(w, res) ==
    With(IF res.err # "" THEN WriteError([w EXCEPT !.buf = <<>>], res.err)
         ELSE WriteValue([w EXCEPT !.buf = <<>>], res.data), LAMBDA r :
        [w |-> [r.w EXCEPT !.buf = @ \o w.buf], err |-> ""])

\* The loop body of HandleConnection after dispatchCommand returned: the
\* writer, and the error HandleConnection returns with ("" to go on)
WriteResult(w, res) ==
    IF res.err # ""
    THEN With(WriteError(w, res.err), LAMBDA r :
            [w |-> r.w, err |-> IF r.err # "" THEN "writing error" ELSE ""])
    ELSE With(WriteValue(w, res.data), LAMBDA r :
            [w |-> r.w, err |-> IF r.err # "" THEN "writing response" ELSE ""])

\* The bytes the writer is handed for a result
Emitted(res) ==
    With(WriteResult(NewRESPWriter(FALSE), res).w, LAMBDA w : w.wire \o w.buf)

-----------------------------------------------------------------------------
(* The clients: what each connection sends *)

\* The wire form of a frame as a client writes it
RECURSIVE ClientEncode(_)
ClientEncode(f) ==
    CASE f.type = "SimpleString" -> <<"+">> \o f.data \o CRLF
      [] f.type = "Integer" -> <<":">> \o FormatInt(f.int) \o CRLF
      [] f.type = "BulkString" ->
            IF f.null THEN <<"$", "-", "1", CR, LF>>
            ELSE <<"$">> \o FormatInt(Len(f.data)) \o CRLF \o f.data \o CRLF
      [] OTHER ->
            IF f.null THEN <<"*", "-", "1", CR, LF>>
            ELSE <<"*">> \o FormatInt(Len(f.elems)) \o CRLF
                 \o Flatten([i \in DOMAIN f.elems |-> ClientEncode(f.elems[i])])

\* One thing a client sends. class: "cmd" a command the server runs to a value,
\* "err" a known command it answers with an error, "fatal" a frame that ends
\* the connection, "partial" the start of a frame the client never completes,
\* "fault" a frame with a length field at the end of the int64 range.
Request(name, args) ==
    [class |-> "cmd", op |-> ToUpper(name.data), args |-> args,
     bytes |-> ClientEncode(RESPArray(<<name>> \o args))]
BadRequest(name, args) ==
    [class |-> "err", op |-> ToUpper(name.data), args |-> args,
     bytes |-> ClientEncode(RESPArray(<<name>> \o args))]
Raw(class, bytes) == [class |-> class, op |-> <<>>, args |-> <<>>, bytes |-> bytes]
NoItem == Raw("none", <<>>)

Bulk(s) == RESPBulkString(s)
Simple(s) == RESPSimpleString(s)

Key1 == <<"k">>
Key2 == <<"j">>
Val1 == <<"v">>
Val2 == <<"w">>
ValCRLF == <<CR, LF>>

SetK1V1 == Request(Bulk(SET), <<Bulk(Key1), Bulk(Val1)>>)
SetK1V2 == Request(Bulk(SET), <<Bulk(Key1), Bulk(Val2)>>)
SetK2V2 == Request(Bulk(SET), <<Bulk(Key2), Bulk(Val2)>>)
SetK2CRLF == Request(Simple(<<"s", "e", "t">>), <<Simple(Key2), Bulk(ValCRLF)>>)
GetK1 == Request(Bulk(GET), <<Bulk(Key1)>>)
GetK2 == Request(Bulk(<<"g", "e", "t">>), <<Bulk(Key2)>>)
EchoA == Request(Bulk(ECHO), <<Bulk(<<"a">>)>>)
EchoB == Request(Simple(<<"E", "c", "h", "o">>), <<Simple(<<"b">>)>>)
GetNoArgs == BadRequest(Bulk(GET), <<>>)
GetNoArgsShort == BadRequest(Simple(GET), <<>>)
GetK2Short == Request(Simple(GET), <<Simple(Key2)>>)
EchoShort == Request(Simple(ECHO), <<Bulk(<<"a">>)>>)
SetOneArg == BadRequest(Bulk(SET), <<Bulk(Key1)>>)
SetIntValue == BadRequest(Bulk(SET), <<Bulk(Key1), RESPInteger(5)>>)
EchoTwoArgs == BadRequest(Simple(ECHO), <<Simple(<<"a">>), Simple(<<"b">>)>>)
SetArrayKey == BadRequest(Bulk(SET), <<RESPArray(<<Bulk(Key1), RESPInteger(5)>>), Bulk(Val1)>>)
Ping == Raw("fatal", ClientEncode(RESPArray(<<Simple(<<"P", "I", "N", "G">>)>>)))
NotArray == Raw("fatal", ClientEncode(Simple(<<"P">>)))
ErrorFrame == Raw("fatal", <<"-", "E", CR, LF>>)
BadLength == Raw("fatal", <<"*", "x", CR, LF>>)
NullArray == Raw("fatal", ClientEncode(RESPArrayNil))
HalfSet == Raw("partial", SubSeq(SetK1V2.bytes, 1, 9))
SetK1Empty == Request(Bulk(SET), <<Bulk(Key1), Bulk(<<>>)>>)
SetK1Null == Request(Bulk(SET), <<Bulk(Key1), RESPBulkStringNil>>)
SetK1Simple == Request(Bulk(SET), <<Bulk(Key1), Simple(Val1)>>)
SetK2Extra == Request(Bulk(SET), <<Bulk(Key2), Bulk(Val1), Bulk(Val2), RESPInteger(5)>>)
EchoEmpty == Request(Bulk(ECHO), <<Bulk(<<>>)>>)
EchoNull == Request(Bulk(ECHO), <<RESPBulkStringNil>>)
EchoCRLF == Request(Bulk(ECHO), <<Bulk(ValCRLF)>>)
EchoNoArgs == BadRequest(Bulk(ECHO), <<>>)
EchoInt == BadRequest(Bulk(ECHO), <<RESPInteger(5)>>)
HugeBulk == Raw("fault", <<"$">> \o FormatInt(MaxInt64) \o CRLF)
DelK1 == Raw("fatal", ClientEncode(RESPArray(<<Bulk(<<"d", "e", "l">>), Bulk(Key1)>>)))
EchoLong == Request(Bulk(ECHO), <<Bulk(<<"a", "b", "c", "d">>)>>)
KeyCRLF == <<"k", CR, LF>>
SetCRLFKey == Request(Bulk(SET), <<Bulk(KeyCRLF), Bulk(ValCRLF)>>)
GetCRLFKey == Request(Bulk(GET), <<Bulk(KeyCRLF)>>)
EchoTwoCRLF == BadRequest(Bulk(ECHO), <<Bulk(ValCRLF), Bulk(CRLF)>>)
SetOneCRLF == BadRequest(Bulk(SET), <<Bulk(KeyCRLF)>>)
GetTwoCRLF == BadRequest(Bulk(GET), <<Bulk(KeyCRLF), Bulk(<<LF>>)>>)
GetArrayCRLF == BadRequest(Bulk(GET), <<RESPArray(<<Bulk(KeyCRLF)>>)>>)
SetK2IntValue == BadRequest(Bulk(SET), <<Bulk(Key2), RESPInteger(5)>>)
SetK2ArrayValue == BadRequest(Bulk(SET), <<Bulk(Key2), RESPArray(<<Bulk(ValCRLF)>>)>>)
EchoArrayCRLF == BadRequest(Bulk(ECHO), <<RESPArray(<<Bulk(CRLF)>>)>>)
HugeArray == Raw("fault", <<"*">> \o FormatInt(MaxInt64) \o CRLF)

StreamOf(prog) == Flatten([i \in DOMAIN prog |-> prog[i].bytes])

\* The ways a client's bytes reach the server's reads: in one piece, one
\* piece per request, or cut in two at any offset
Whole(prog) == <<StreamOf(prog)>>
PerRequest(prog) == [i \in DOMAIN prog |-> prog[i].bytes]
CutAt(bytes, k) == <<SubSeq(bytes, 1, k), SubSeq(bytes, k + 1, Len(bytes))>>
NonEmpty(segs) == SelectSeq(segs, LAMBDA x : x # <<>>)

-----------------------------------------------------------------------------
(* The server: one HandleConnection per connection over one keyspace *)

Conns == {1, 2}

VARIABLES
    net,        \* per connection: the pieces sent by the client and not yet read
    peer,       \* per connection: what a read returns once net is empty
    reader,     \* per connection: the RESPReader
    retired,    \* per connection: the buffers growBuffer has replaced, oldest first
    commands,   \* per connection: the rest of the batch HandleConnection ranges over
    pc,         \* per connection: where HandleConnection is
    exit,       \* per connection: "" while it runs, "nil" or the error it returned
    outbuf,     \* per connection: the bytes buffered in respWriter.writer
    wire,       \* per connection: the bytes written to the socket
    werr,       \* per connection: respWriter.writer's sticky error, "" for nil
    wfail,      \* per connection: the socket refuses writes (never changes)
    calls,      \* per connection: the loop's calls of ReadCommands, of a reply's
                \* write and of Flush, in order
    connOpen,   \* per connection: conn.Close() has not been called
    store,      \* the keyspace's Map
    mutex,      \* the keyspace's Mutex: [readers, writer], sets of connections
    now,        \* time.Now()
    crashed,    \* a goroutine faulted: the process is gone
    prog,       \* per connection: the requests its client sends (never changes)
    feed,       \* per connection: the pieces it sends them in (never changes)
    parsed,     \* per connection: every command ReadCommands has returned
    dropped,    \* per connection: the commands returned along with an error
    results,    \* per connection: what dispatchCommand returned, per command
    hist,       \* the keyspace calls in the order they took and left the lock
    call,       \* a function of the value model or the codec applied by itself:
                \* [fn, arg, out, stage]
    tprog,      \* per thread using a ConcurrentMap by itself: its calls to come
    tpc,        \* per thread: where it is in its call
    tval,       \* per thread: the (val, ok) its Update has loaded
    tret        \* per thread: what its calls have returned

vars == <<net, peer, reader, retired, commands, pc, exit, outbuf, wire, werr, wfail, calls,
          connOpen, store, mutex, now, crashed, prog, feed, parsed, dropped, results, hist,
          call, tprog, tpc, tval, tret>>

connVars == <<net, peer, reader, retired, parsed, dropped>>
mapVars == <<tprog, tpc, tval, tret>>
\* What no step of a connection changes
ghostVars == <<prog, feed, now, wfail, call, mapVars>>
\* What belongs to the connections alone
serverVars == <<net, peer, reader, retired, commands, pc, exit, outbuf, wire, werr, wfail,
                calls, connOpen, now, crashed, prog, feed, parsed, dropped, results, hist>>

\* The connections start as HandleConnection finds them: nothing read, nothing
\* written; progs and feeds say what the clients send
ConnectionsSized(progs, feeds, ends, sizes) ==
    /\ werr = [c \in Conns |-> ""]
    /\ calls = [c \in Conns |-> <<>>]
    /\ prog = progs
    /\ feed = feeds
    /\ net = feeds
    /\ peer = ends
    /\ reader = [c \in Conns |-> NewRESPReader(sizes[c])]
    /\ retired = [c \in Conns |-> <<>>]
    /\ commands = [c \in Conns |-> <<>>]
    /\ pc = [c \in Conns |-> "read"]
    /\ exit = [c \in Conns |-> ""]
    /\ outbuf = [c \in Conns |-> <<>>]
    /\ wire = [c \in Conns |-> <<>>]
    /\ connOpen = [c \in Conns |-> TRUE]
    /\ now = 1
    /\ crashed = FALSE
    /\ parsed = [c \in Conns |-> <<>>]
    /\ dropped = [c \in Conns |-> <<>>]
    /\ results = [c \in Conns |-> <<>>]
    /\ hist = <<>>

\* The server's connections: NewRESPReader(conn, RESP_READER_INITIAL_BUF_SIZE)
Connections(progs, feeds, ends) ==
    ConnectionsSized(progs, feeds, ends, [c \in Conns |-> InitialBufSize])

NoCall == [fn |-> "", arg |-> NoData, out |-> <<>>, back |-> ParseFail("", RESPArrayNil, 0), stage |-> ""]
\* No function is applied by itself
CodecIdle == call = NoCall
\* No thread uses a map by itself
ThreadsIdle ==
    /\ tprog = <<>>
    /\ tpc = <<>>
    /\ tval = <<>>
    /\ tret = <<>>

\* The server as StartServer finds it: the connections over an empty keyspace
Setup(progs, feeds, ends) ==
    /\ Connections(progs, feeds, ends)
    /\ store = <<>>
    /\ mutex = [readers |-> {}, writer |-> {}]
    /\ CodecIdle
    /\ ThreadsIdle

\* The same with readers of the given initial buffer sizes
SetupSized(progs, feeds, ends, sizes) ==
    /\ ConnectionsSized(progs, feeds, ends, sizes)
    /\ store = <<>>
    /\ mutex = [readers |-> {}, writer |-> {}]
    /\ CodecIdle
    /\ ThreadsIdle

\* A value made on connection c from a slice of its read buffer points into
\* the buffer the reader has at that time
Pin(d, c) == IF d.off >= 0 /\ d.home = <<>> THEN [d EXCEPT !.home = <<c, Len(retired[c])>>] ELSE d
\* The bytes a value's data holds now
Deref(d) ==
    IF d.off < 0 \/ d.home = <<>> THEN d.data
    ELSE LET c == d.home[1]
             buffer == IF d.home[2] = Len(retired[c]) THEN reader[c].buffer
                       ELSE retired[c][d.home[2] + 1]
         IN Slice(buffer, d.off, d.off + Len(d.data))
\* The value with the bytes it holds now, as a value of their own
Snap(d) == [d EXCEPT !.data = Deref(d), !.off = -1, !.home = <<>>]

\* The request the connection's next dispatched command was sent as
ItemAt(c, i) == IF i \in DOMAIN prog[c] THEN prog[c][i] ELSE NoItem
ArgData(item, i) == IF i \in DOMAIN item.args THEN item.args[i].data ELSE <<>>
Event(ev, c) ==
    LET item == ItemAt(c, Len(results[c]) + 1)
    IN [ev |-> ev, conn |-> c, idx |-> Len(results[c]) + 1, op |-> item.op,
        key |-> ArgData(item, 1), val |-> ArgData(item, 2)]

\* A loop that flushes after every reply
NextPcFlushEach(c) == "flush"

\* A loop that goes back to the read without a flush
NextPcNoFlush(c) == IF Len(commands[c]) > 1 THEN "dispatch" ELSE "read"

\* for _, cmd := range commands: on to the next command, or to the flush
NextPc(c) == IF Len(commands[c]) > 1 THEN "dispatch" ELSE "flush"

Call(name, n, err) == [call |-> name, n |-> n, err |-> err]

\* A Close on the paths that return an error only
ClosedOnError(c, err) == IF err = "nil" THEN connOpen ELSE [connOpen EXCEPT ![c] = FALSE]
\* defer conn.Close(): run when HandleConnection returns err, and as well
\* when it is left by a panic
Closed(c, err) == [connOpen EXCEPT ![c] = FALSE]

\* respWriter as the connection's variables hold it
Writer(c) == [buf |-> outbuf[c], wire |-> wire[c], err |-> werr[c], fails |-> wfail[c]]

\* The rest of the loop body once dispatchCommand has returned res: the reply
\* is written, and the loop goes on, or returns the write's error
Reply(c, res) ==
    \E r \in {WriteResult(Writer(c), res)} :
        /\ outbuf' = [outbuf EXCEPT ![c] = r.w.buf]
        /\ wire' = [wire EXCEPT ![c] = r.w.wire]
        /\ werr' = [werr EXCEPT ![c] = r.w.err]
        /\ results' = [results EXCEPT ![c] = Append(@, res)]
        /\ calls' = [calls EXCEPT ![c] = Append(@, Call("Write", 0, r.err))]
        /\ commands' = [commands EXCEPT ![c] = Tail(@)]
        /\ IF r.err # ""
           THEN /\ pc' = [pc EXCEPT ![c] = "done"]
                /\ exit' = [exit EXCEPT ![c] = r.err]
                /\ connOpen' = Closed(c, exit'[c])
           ELSE /\ pc' = [pc EXCEPT ![c] = NextPc(c)]
                /\ UNCHANGED <<exit, connOpen>>

\* commands, err := respReader.ReadCommands() and the test of err
HandleConnectionRead(c) ==
    /\ ~crashed
    /\ pc[c] = "read"
    /\ \E avail \in {IF net[c] = <<>> THEN <<>> ELSE Head(net[c])} :
       \E res \in {ReadCommands(reader[c], avail, peer[c])} :
          /\ reader' = [reader EXCEPT ![c] = res.reader]
          /\ retired' = [retired EXCEPT ![c] =
                            IF Len(res.reader.buffer) # Len(reader[c].buffer)
                            THEN Append(@, shiftBuffer(reader[c]).buffer) ELSE @]
          /\ net' = [net EXCEPT ![c] =
                        IF avail = <<>> THEN <<>>
                        ELSE IF res.n = Len(avail) THEN Tail(net[c])
                        ELSE <<SubSeq(avail, res.n + 1, Len(avail))>> \o Tail(net[c])]
          /\ parsed' = [parsed EXCEPT ![c] =
                            @ \o [i \in DOMAIN res.commands |->
                                     res.commands[i] @@ [gen |-> Len(retired'[c])]]]
          /\ calls' = [calls EXCEPT ![c] =
                          Append(@, Call("ReadCommands", Len(res.commands), res.err)
                                        @@ [last |-> res.last])]
          /\ IF res.err = "panic"
             THEN /\ crashed' = TRUE
                  /\ pc' = [pc EXCEPT ![c] = "panic"]
                  /\ connOpen' = Closed(c, "panic")
                  /\ UNCHANGED <<commands, exit, dropped>>
             ELSE IF res.err # ""
             THEN /\ pc' = [pc EXCEPT ![c] = "done"]
                  /\ exit' = [exit EXCEPT ![c] = IF res.err = "EOF" THEN "nil" ELSE res.err]
                  /\ connOpen' = Closed(c, exit'[c])
                  /\ dropped' = [dropped EXCEPT ![c] = res.commands]
                  /\ UNCHANGED <<commands, crashed>>
             ELSE /\ commands' = [commands EXCEPT ![c] = res.commands]
                  /\ pc' = [pc EXCEPT ![c] = IF res.commands = <<>> THEN "flush" ELSE "dispatch"]
                  /\ UNCHANGED <<exit, connOpen, dropped, crashed>>
    /\ UNCHANGED <<peer, outbuf, wire, werr, store, mutex, results, hist, ghostVars>>

\* One round of the loop over the batch for a command whose handler returns
\* without calling the keyspace: an error, or ECHO
Dispatch(c) ==
    /\ ~crashed
    /\ pc[c] = "dispatch"
    /\ ~CallsStore(Head(commands[c]))
    /\ LET ret == dispatchCommand(Head(commands[c]))
       IN Reply(c, Result(Snap(Pin(ret.data, c)), ret.err))
    /\ UNCHANGED <<connVars, store, mutex, crashed, hist, ghostVars>>

\* handleSet calls store.Set: c.Mutex.Lock()
SetLock(c) ==
    /\ ~crashed
    /\ pc[c] = "dispatch"
    /\ Head(commands[c]).Type = SET
    /\ CallsStore(Head(commands[c]))
    /\ LockFree(mutex)
    /\ mutex' = [mutex EXCEPT !.writer = {c}]
    /\ pc' = [pc EXCEPT ![c] = "set"]
    /\ hist' = Append(hist, Event("lock", c) @@ [reply |-> <<>>])
    /\ UNCHANGED <<connVars, exit, connOpen, commands, outbuf, wire, werr, calls, store,
                   crashed, results, ghostVars>>

\* c.Map[*key] = *value, the deferred Unlock, and the reply
SetStore(c) ==
    /\ ~crashed
    /\ pc[c] = "set"
    /\ LET h == handleSet(Head(commands[c]).Args)
           res == Result(Snap(Pin(h.data, c)), "")
       IN /\ store' = MapSet(store, h.key, MiniRedisObject(Pin(h.data, c), ZeroTime))
          /\ hist' = Append(hist, Event("unlock", c) @@ [reply |-> Emitted(res)])
          /\ Reply(c, res)
    /\ mutex' = [mutex EXCEPT !.writer = {}]
    /\ UNCHANGED <<connVars, crashed, ghostVars>>

\* handleGet calls store.Get: c.Mutex.RLock()
GetRLock(c) ==
    /\ ~crashed
    /\ pc[c] = "dispatch"
    /\ Head(commands[c]).Type = GET
    /\ CallsStore(Head(commands[c]))
    /\ RLockFree(mutex)
    /\ mutex' = [mutex EXCEPT !.readers = @ \cup {c}]
    /\ pc' = [pc EXCEPT ![c] = "get"]
    /\ hist' = Append(hist, Event("lock", c) @@ [reply |-> <<>>])
    /\ UNCHANGED <<connVars, exit, connOpen, commands, outbuf, wire, werr, calls, store,
                   crashed, results, ghostVars>>

\* val, ok := c.Map[*key], the deferred RUnlock, and the rest of handleGet:
\* the reply, unless the record has expired and store.Delete comes first
GetLoad(c) ==
    /\ ~crashed
    /\ pc[c] = "get"
    /\ mutex' = [mutex EXCEPT !.readers = @ \ {c}]
    /\ LET h == handleGet(Head(commands[c]).Args)
           got == MapGet(store, h.key)
           f == handleGetFound(got.val, got.ok, now)
           res == Result(Snap(f.data), "")
       IN IF f.delete
          THEN /\ pc' = [pc EXCEPT ![c] = "delete"]
               /\ UNCHANGED <<commands, outbuf, wire, werr, calls, exit, connOpen, results, hist>>
          ELSE /\ hist' = Append(hist, Event("unlock", c) @@ [reply |-> Emitted(res)])
               /\ Reply(c, res)
    /\ store' = MapAfterGet(store, handleGet(Head(commands[c]).Args).key)
    /\ UNCHANGED <<connVars, crashed, ghostVars>>

\* respWriter.writer.Flush() after the batch, and back to the read
Flush(c) ==
    /\ ~crashed
    /\ pc[c] = "flush"
    /\ \E w \in {BufFlush(Writer(c))} :
        /\ outbuf' = [outbuf EXCEPT ![c] = w.buf]
        /\ wire' = [wire EXCEPT ![c] = w.wire]
        /\ werr' = [werr EXCEPT ![c] = w.err]
        /\ calls' = [calls EXCEPT ![c] = Append(@, Call("Flush", 0, w.err))]
        /\ IF w.err # ""
           THEN /\ pc' = [pc EXCEPT ![c] = "done"]
                /\ exit' = [exit EXCEPT ![c] = "flushing"]
                /\ connOpen' = Closed(c, exit'[c])
           ELSE /\ pc' = [pc EXCEPT ![c] = "read"]
                /\ UNCHANGED <<exit, connOpen>>
    /\ UNCHANGED <<connVars, commands, store, mutex, crashed, results, hist, ghostVars>>

Next ==
    \E c \in Conns :
        \/ HandleConnectionRead(c)
        \/ Dispatch(c)
        \/ SetLock(c)
        \/ SetStore(c)
        \/ GetRLock(c)
        \/ GetLoad(c)
        \/ Flush(c)

-----------------------------------------------------------------------------
(* What the clients send *)

\* Clients that share the key Key1, that use keys of their own, that send
\* requests the server answers with an error, and that send frames it cannot
\* serve
ProgsA ==
    { <<SetK1V1, GetK1>>,
      <<GetK1, SetK1V2>>,
      <<SetK1V1, SetK2V2, GetK1>>,
      <<EchoA, GetNoArgs, EchoB>>,
      <<SetOneArg, SetK1V1, EchoTwoArgs>>,
      <<SetK1V1, NotArray, GetK1>>,
      <<EchoA, HugeBulk>>,
      <<SetIntValue, HugeArray>>,
      <<GetK1, HalfSet>> }

ProgsB ==
    { <<SetK1V2, GetK1>>,
      <<SetK2CRLF, GetK2>>,
      <<GetK1, BadLength>> }

Feeds(p) == {NonEmpty(Whole(p)), NonEmpty(PerRequest(p))}

Init ==
    \E p1 \in ProgsA, p2 \in ProgsB :
        \E f1 \in Feeds(p1), f2 \in Feeds(p2) :
            /\ Setup(<<p1, p2>>, <<f1, f2>>, <<"EOF", "EOF">>)
            /\ wfail = [c \in Conns |-> FALSE]

Spec == Init /\ [][Next]_vars

\* One connection fed a program cut in two at every offset (offset 0 or the
\* full length: in one piece); the other connection's client sends nothing
SplitProgs ==
    { <<SetK1V1, GetK1>>,
      <<SetK2CRLF, GetK2, EchoB>>,
      <<GetNoArgs, SetArrayKey, EchoA>>,
      <<SetK1V1, NotArray, GetK1>>,
      <<EchoA, HugeBulk>>,
      <<GetK1, HalfSet>> }

InitSplit ==
    \E p \in SplitProgs :
        \E k \in 0..Len(StreamOf(p)) :
            /\ Setup(<<p, <<>>>>, <<NonEmpty(CutAt(StreamOf(p), k)), <<>>>>, <<"EOF", "EOF">>)
            /\ wfail = [c \in Conns |-> FALSE]

SpecSplit == InitSplit /\ [][Next]_vars

\* One connection whose reader starts with a buffer of 1 byte or more, shorter
\* than any request, fed requests cut in two at every offset; the goroutine
\* of a connection that can take a step is scheduled
GrowProgs == { <<SetK1V1>>, <<EchoA, SetK1V1>>, <<SetK2CRLF, GetK2>> }
InitGrow ==
    \E p \in GrowProgs :
        \E k \in 0..Len(StreamOf(p)), n \in 1..InitialBufSize :
            /\ SetupSized(<<p, <<>>>>, <<NonEmpty(CutAt(StreamOf(p), k)), <<>>>>,
                          <<"EOF", "EOF">>, <<n, InitialBufSize>>)
            /\ wfail = [c \in Conns |-> FALSE]
Serve(c) ==
    \/ HandleConnectionRead(c) \/ Dispatch(c) \/ SetLock(c) \/ SetStore(c)
    \/ GetRLock(c) \/ GetLoad(c) \/ Flush(c)
SpecGrow == InitGrow /\ [][Next]_vars /\ \A c \in Conns : WF_vars(Serve(c))

\* One connection whose requests are answered with errors, with CR and LF in
\* their keys, values and arguments, beside a connection that writes Key1
ProgsErr ==
    { <<SetCRLFKey, EchoTwoCRLF, GetCRLFKey, SetOneCRLF>>,
      <<SetK2IntValue, GetK2, SetK2ArrayValue, GetTwoCRLF>>,
      <<SetK1V1, SetArrayKey, GetArrayCRLF, GetK1>>,
      <<SetK1V1, SetIntValue, GetK1, EchoArrayCRLF, EchoNoArgs>> }
InitErr ==
    \E p \in ProgsErr : \E f \in Feeds(p) :
        /\ Setup(<<p, <<SetK1V2, GetK1>>>>, <<f, Whole(<<SetK1V2, GetK1>>)>>, <<"EOF", "EOF">>)
        /\ wfail = [c \in Conns |-> FALSE]
SpecErr == InitErr /\ [][Next]_vars

\* One connection fed, cut in two at every offset, requests around a frame
\* that ends the connection: a command the server does not know, a frame
\* that is no array, a frame with an unparseable length
FatalProgs ==
    { <<SetK1V1, Ping, SetK2V2>>,
      <<DelK1, SetK1V1, GetK1>>,
      <<SetK1V1, GetK1, DelK1, EchoA>>,
      <<SetK1V1, NotArray, SetK2V2>>,
      <<EchoA, BadLength, SetK1V1>> }
InitFatal ==
    \E p \in FatalProgs :
        \E k \in 0..Len(StreamOf(p)) :
            /\ Setup(<<p, <<>>>>, <<NonEmpty(CutAt(StreamOf(p), k)), <<>>>>, <<"EOF", "EOF">>)
            /\ wfail = [c \in Conns |-> FALSE]
SpecFatal == InitFatal /\ [][Next]_vars

\* One connection whose replies overflow the writer's buffer within a batch,
\* over a socket that takes the writes or refuses them
ProgsIO ==
    { <<EchoA, GetNoArgsShort>>,
      <<EchoShort, GetK2Short>>,
      <<EchoA, EchoB, EchoA>>,
      <<SetK1V1, GetK1>> }

InitIO ==
    \E p \in ProgsIO : \E f \in Feeds(p) : \E fails \in BOOLEAN :
        /\ Setup(<<p, <<SetK1V2, GetK1>>>>, <<f, Whole(<<SetK1V2, GetK1>>)>>, <<"EOF", "EOF">>)
        /\ wfail = <<fails, FALSE>>

SpecIO == InitIO /\ [][Next]_vars

\* One connection that stores, fetches and echoes values of every kind (bulk,
\* simple, empty, nil, with CR LF inside) and sends wrong numbers of
\* arguments, beside a connection that writes one of its keys
ProgsValues ==
    { <<SetK1Empty, GetK1, GetK2>>,
      <<SetK1Null, GetK1, SetK2Extra>>,
      <<SetK1Simple, GetK1, SetK2CRLF>>,
      <<EchoCRLF, EchoB, EchoEmpty, EchoNull, EchoTwoArgs, EchoNoArgs, EchoInt>> }

InitValues ==
    \E p \in ProgsValues : \E f \in Feeds(p) :
        /\ Setup(<<p, <<SetK1V2, EchoA>>>>, <<f, Whole(<<SetK1V2, EchoA>>)>>, <<"EOF", "EOF">>)
        /\ wfail = [c \in Conns |-> FALSE]

SpecValues == InitValues /\ [][Next]_vars

\* One connection that repeats a Store or a Fetch, beside a connection that
\* writes the same key at any time in between
ProgsRepeat ==
    { <<SetK1V1, SetK1V1, GetK1>>,
      <<SetK1V1, GetK1, GetK1>>,
      <<GetK1, GetK1, SetK1V1>>,
      <<SetK2V2, SetK2V2, GetK2>> }

InitRepeat ==
    \E p \in ProgsRepeat : \E f \in Feeds(p) :
        /\ Setup(<<p, <<SetK1V2, EchoA>>>>, <<f, Whole(<<SetK1V2, EchoA>>)>>, <<"EOF", "EOF">>)
        /\ wfail = [c \in Conns |-> FALSE]

SpecRepeat == InitRepeat /\ [][Next]_vars

\* One connection on each way out of HandleConnection: the peer closes or the
\* read fails (ReadError), after frames that are served, that cannot be, or
\* that are cut short, over a socket that takes the writes or refuses them
ReadError == "reset"
ProgsExit ==
    { <<SetK1V1, GetK1>>,
      <<EchoA, GetNoArgsShort>>,
      <<EchoShort, GetK2Short>>,
      <<EchoLong, EchoA>>,
      <<EchoA, NotArray>>,
      <<EchoA, Ping>>,
      <<EchoA, BadLength>>,
      <<EchoA, HalfSet>>,
      <<EchoA, HugeBulk>> }

InitExit ==
    \E p \in ProgsExit : \E f \in Feeds(p) : \E fails \in BOOLEAN : \E end \in {"EOF", ReadError} :
        /\ Setup(<<p, <<SetK1V2, GetK1>>>>, <<f, Whole(<<SetK1V2, GetK1>>)>>, <<end, "EOF">>)
        /\ wfail = <<fails, FALSE>>

SpecExit == InitExit /\ [][Next]_vars

-----------------------------------------------------------------------------
(* The value model and the codec by themselves: one value is serialized, or *)
(* written through a RESPWriter over a socket that takes every byte and     *)
(* parsed back from what the socket has received                            *)

\* Payloads of every content up to ShortLen bytes, and of one letter up to LongLen
ShortLen == 3
LongLen == 12
Alphabet == {"a", "$", CR, LF}
Payloads ==
    UNION {[1..n -> Alphabet] : n \in 0..ShortLen}
        \cup {[i \in 1..n |-> "a"] : n \in (ShortLen + 1)..LongLen}

\* Every StringData (with nil data too) and every IntegerData
Values ==
    {StringData(s, FALSE) : s \in Payloads} \cup {StringData(<<>>, TRUE)}
        \cup {IntegerData(n) : n \in (-MaxInt64 - 1)..MaxInt64}

InitCodec ==
    /\ Connections(<<<<>>, <<>>>>, <<<<>>, <<>>>>, <<"EOF", "EOF">>)
    /\ wfail = [c \in Conns |-> FALSE]
    /\ store = <<>>
    /\ mutex = [readers |-> {}, writer |-> {}]
    /\ ThreadsIdle
    /\ \E fn \in {"Serialize", "WriteValue"} : \E v \in Values :
           call = [NoCall EXCEPT !.fn = fn, !.arg = v, !.stage = "call"]

\* got, err := v.Serialize()
ApplySerialize ==
    /\ call.fn = "Serialize"
    /\ call.stage = "call"
    /\ call' = [call EXCEPT !.out = Serialize(call.arg), !.stage = "returned"]
    /\ UNCHANGED <<serverVars, store, mutex, mapVars>>

\* w := NewRESPWriter(conn); w.WriteValue(v); w.writer.Flush()
ApplyWrite ==
    /\ call.fn = "WriteValue"
    /\ call.stage = "call"
    /\ call' = [call EXCEPT !.out = BufFlush(WriteValue(NewRESPWriter(FALSE), call.arg).w).wire,
                            !.stage = "written"]
    /\ UNCHANGED <<serverVars, store, mutex, mapVars>>

\* parseSingleValue on the bytes the socket has received
ApplyParse ==
    /\ call.stage = "written"
    /\ call' = [call EXCEPT !.back = parseSingleValue(call.out), !.stage = "parsed"]
    /\ UNCHANGED <<serverVars, store, mutex, mapVars>>

NextCodec ==
    \/ ApplySerialize
    \/ ApplyWrite
    \/ ApplyParse

SpecCodec == InitCodec /\ [][NextCodec]_vars

-----------------------------------------------------------------------------
(* The frame parser by itself: parseSingleValue on one buffer *)

Prefixes(bytes) == {SubSeq(bytes, 1, k) : k \in 0..Len(bytes)}

\* What follows a bulk string's length line in the buffer
Bodies == Prefixes(<<"a", "b", CR, LF, "c">>) \cup Prefixes(<<CR, LF, "a">>)
\* A bulk string header of every length an int64 can hold, before every body
BulkInputs ==
    {[kind |-> "bulk", L |-> L, body |-> b, whole |-> FALSE,
      bytes |-> <<"$">> \o FormatInt(L) \o CRLF \o b]
        : L \in (-MaxInt64 - 1)..MaxInt64, b \in Bodies}

\* Frames of every type, nested arrays among them
Frames ==
    { RESPSimpleString(<<"O", "K">>), RESPInteger(5), RESPInteger(-3),
      RESPBulkString(<<"a">>), RESPBulkString(<<>>), RESPBulkStringNil,
      RESPArray(<<>>), RESPArrayNil,
      RESPArray(<<RESPBulkString(<<"a">>), RESPInteger(5)>>),
      RESPArray(<<RESPArray(<<RESPInteger(1), RESPBulkString(<<"a", "b">>)>>),
                  RESPSimpleString(<<"x">>)>>) }
\* Error frames, and lines that start with a byte that is no type byte
FirstBytes == {"-", "a", "!", "0", CR}
Lines == {<<b, "1", CR, LF>> : b \in FirstBytes} \cup {<<"-", "E", "R", "R", " ", "x", CR, LF>>}
\* Every frame and line, whole and cut short at every length
FrameInputs ==
    UNION {{[kind |-> "frame", L |-> 0, body |-> <<>>, whole |-> Len(p) = Len(w), bytes |-> p]
               : p \in Prefixes(w)}
           : w \in {ClientEncode(f) : f \in Frames} \cup Lines}

InitParse ==
    /\ Connections(<<<<>>, <<>>>>, <<<<>>, <<>>>>, <<"EOF", "EOF">>)
    /\ wfail = [c \in Conns |-> FALSE]
    /\ store = <<>>
    /\ mutex = [readers |-> {}, writer |-> {}]
    /\ ThreadsIdle
    /\ \E in \in BulkInputs \cup FrameInputs :
           call = [NoCall EXCEPT !.fn = "parseSingleValue", !.arg = in, !.out = in.bytes,
                                 !.stage = "written"]

NextParse == ApplyParse

SpecParse == InitParse /\ [][NextParse]_vars

-----------------------------------------------------------------------------
(* Command normalization by itself: ParseCommand on one array *)

\* A command name in every mix of upper and lower case
ToLowerByte(b) == IF b \in Range(UpperLetters) THEN LowerLetters[IndexOf(UpperLetters, b)] ELSE b
CaseVariants(name) ==
    {[i \in DOMAIN name |-> IF i \in S THEN ToLowerByte(name[i]) ELSE name[i]]
        : S \in SUBSET DOMAIN name}
\* Names that are no command
OtherNames == {<<>>, <<"P", "I", "N", "G">>, <<"s", "e">>, <<"S", "E", "T", "T">>}
\* The elements after the first: up to two values of any type
ArgValues ==
    { RESPBulkString(Key1), RESPSimpleString(Val1), RESPInteger(5), RESPBulkStringNil,
      RESPArray(<<RESPBulkString(Key1)>>) }
ArgVectors == {<<>>} \cup {<<a>> : a \in ArgValues} \cup {<<a, b>> : a \in ArgValues, b \in ArgValues}
\* The arrays handed to ParseCommand: op is the command the first element
\* names (<<>> when it names none), str whether the first element is a string
CommandInput(first, op, str, rest) ==
    [array |-> RESPArray(<<first>> \o rest), first |-> first, op |-> op, str |-> str,
     rest |-> rest, empty |-> FALSE]
CommandInputs ==
    UNION { UNION { {CommandInput(RESPSimpleString(n), op, TRUE, r),
                     CommandInput(RESPBulkString(n), op, TRUE, r)}
                      : n \in CaseVariants(op), r \in ArgVectors }
              : op \in {SET, GET, ECHO} }
    \cup UNION { {CommandInput(RESPSimpleString(n), <<>>, TRUE, r), CommandInput(RESPBulkString(n), <<>>, TRUE, r)}
              : n \in OtherNames, r \in ArgVectors }
    \cup { CommandInput(f, <<>>, FALSE, r)
              : f \in {RESPInteger(5), RESPArray(<<RESPBulkString(SET)>>)}, r \in ArgVectors }
    \cup { [array |-> a, first |-> RESPArrayNil, op |-> <<>>, str |-> FALSE, rest |-> <<>>, empty |-> TRUE]
              : a \in {RESPArray(<<>>), RESPArrayNil} }

InitCommand ==
    /\ Connections(<<<<>>, <<>>>>, <<<<>>, <<>>>>, <<"EOF", "EOF">>)
    /\ wfail = [c \in Conns |-> FALSE]
    /\ store = <<>>
    /\ mutex = [readers |-> {}, writer |-> {}]
    /\ ThreadsIdle
    /\ \E in \in CommandInputs :
           call = [NoCall EXCEPT !.fn = "ParseCommand", !.arg = in, !.stage = "call"]

\* ParseCommand on the array
ApplyParseCommand ==
    /\ call.fn = "ParseCommand"
    /\ call.stage = "call"
    /\ call' = [call EXCEPT !.back = ParseCommand(call.arg.array), !.stage = "normalized"]
    /\ UNCHANGED <<serverVars, store, mutex, mapVars>>

NextCommand == ApplyParseCommand

SpecCommand == InitCommand /\ [][NextCommand]_vars

-----------------------------------------------------------------------------
(* A ConcurrentMap[string, int] by itself: goroutines calling Get, Set,     *)
(* Delete and Update on one map. A call is two steps, taking the lock and   *)
(* the rest up to the deferred unlock; Update is three, its load and its    *)
(* store being apart                                                        *)

NumThreads == 2
Threads == 1..NumThreads

CounterKey == "counter"
MissingKey == "missing"
\* value := 1; cm.Set(&key, &value)
InitialCounter == 1
\* func(v int) int { return v + 1 }
Incr(v) == v + 1

OpGet(k) == [op |-> "Get", key |-> k, val |-> 0]
OpSet(k, v) == [op |-> "Set", key |-> k, val |-> v]
OpDelete(k) == [op |-> "Delete", key |-> k, val |-> 0]
OpUpdate(k) == [op |-> "Update", key |-> k, val |-> 0]

\* What one goroutine calls, in order
ThreadProgs ==
    { <<OpUpdate(CounterKey), OpUpdate(CounterKey)>>,
      <<OpGet(CounterKey), OpUpdate(MissingKey), OpGet(CounterKey)>>,
      <<OpSet(MissingKey, 5), OpUpdate(MissingKey), OpDelete(MissingKey)>>,
      <<OpDelete(CounterKey), OpSet(CounterKey, 3)>> }

InitMap ==
    /\ Connections(<<<<>>, <<>>>>, <<<<>>, <<>>>>, <<"EOF", "EOF">>)
    /\ wfail = [c \in Conns |-> FALSE]
    /\ CodecIdle
    /\ store = (CounterKey :> InitialCounter)
    /\ mutex = [readers |-> {}, writer |-> {}]
    /\ tprog \in [Threads -> ThreadProgs]
    /\ tpc = [t \in Threads |-> "idle"]
    /\ tval = [t \in Threads |-> [val |-> 0, ok |-> FALSE]]
    /\ tret = [t \in Threads |-> <<>>]

\* The call thread t is in, or makes next
HasOp(t) == Len(tret[t]) < Len(tprog[t])
ThreadOp(t) == tprog[t][Len(tret[t]) + 1]
\* The deferred c.Mutex.Unlock() / c.Mutex.RUnlock()
Unlock(mu, t, op) ==
    IF TakesLock(op) THEN [mu EXCEPT !.writer = @ \ {t}] ELSE [mu EXCEPT !.readers = @ \ {t}]
Return(t, val, ok) == [tret EXCEPT ![t] = Append(@, [op |-> ThreadOp(t).op, val |-> val, ok |-> ok])]

\* c.Mutex.RLock()
MapRLock(t) ==
    /\ tpc[t] = "idle"
    /\ HasOp(t)
    /\ ~TakesLock(ThreadOp(t).op)
    /\ RLockFree(mutex)
    /\ mutex' = [mutex EXCEPT !.readers = @ \cup {t}]
    /\ tpc' = [tpc EXCEPT ![t] = "in"]
    /\ UNCHANGED <<serverVars, call, store, tprog, tval, tret>>

\* c.Mutex.Lock()
MapLock(t) ==
    /\ tpc[t] = "idle"
    /\ HasOp(t)
    /\ TakesLock(ThreadOp(t).op)
    /\ LockFree(mutex)
    /\ mutex' = [mutex EXCEPT !.writer = @ \cup {t}]
    /\ tpc' = [tpc EXCEPT ![t] = "in"]
    /\ UNCHANGED <<serverVars, call, store, tprog, tval, tret>>

\* Get: val, ok := c.Map[*key]; return
MapGetReturn(t) ==
    /\ tpc[t] = "in"
    /\ ThreadOp(t).op = "Get"
    /\ \E r \in {MapLookup(store, ThreadOp(t).key, 0)} : tret' = Return(t, r.val, r.ok)
    /\ mutex' = Unlock(mutex, t, "Get")
    /\ tpc' = [tpc EXCEPT ![t] = "idle"]
    /\ UNCHANGED <<serverVars, call, store, tprog, tval>>

\* Set: c.Map[*key] = *value
MapSetReturn(t) ==
    /\ tpc[t] = "in"
    /\ ThreadOp(t).op = "Set"
    /\ store' = MapSet(store, ThreadOp(t).key, ThreadOp(t).val)
    /\ tret' = Return(t, 0, TRUE)
    /\ mutex' = Unlock(mutex, t, "Set")
    /\ tpc' = [tpc EXCEPT ![t] = "idle"]
    /\ UNCHANGED <<serverVars, call, tprog, tval>>

\* Delete: delete(c.Map, *key)
MapDeleteReturn(t) ==
    /\ tpc[t] = "in"
    /\ ThreadOp(t).op = "Delete"
    /\ store' = MapDelete(store, ThreadOp(t).key)
    /\ tret' = Return(t, 0, TRUE)
    /\ mutex' = Unlock(mutex, t, "Delete")
    /\ tpc' = [tpc EXCEPT ![t] = "idle"]
    /\ UNCHANGED <<serverVars, call, tprog, tval>>

\* Update: val, ok := c.Map[*key]
MapUpdateLoad(t) ==
    /\ tpc[t] = "in"
    /\ ThreadOp(t).op = "Update"
    /\ tval' = [tval EXCEPT ![t] = MapLookup(store, ThreadOp(t).key, 0)]
    /\ tpc' = [tpc EXCEPT ![t] = "loaded"]
    /\ UNCHANGED <<serverVars, call, store, mutex, tprog, tret>>

\* Update: if ok { c.Map[*key] = fn(val); return true }; return false
MapUpdateReturn(t) ==
    /\ tpc[t] = "loaded"
    /\ store' = IF tval[t].ok THEN MapSet(store, ThreadOp(t).key, Incr(tval[t].val)) ELSE store
    /\ tret' = Return(t, 0, tval[t].ok)
    /\ mutex' = Unlock(mutex, t, "Update")
    /\ tpc' = [tpc EXCEPT ![t] = "idle"]
    /\ UNCHANGED <<serverVars, call, tprog, tval>>

NextMap ==
    \E t \in Threads :
        \/ MapRLock(t)
        \/ MapLock(t)
        \/ MapGetReturn(t)
        \/ MapSetReturn(t)
        \/ MapDeleteReturn(t)
        \/ MapUpdateLoad(t)
        \/ MapUpdateReturn(t)

SpecMap == InitMap /\ [][NextMap]_vars

-----------------------------------------------------------------------------
(* Properties *)

\* Everything the connection has written, flushed or not
sent(c) == wire[c] \o outbuf[c]

\* The reply bytes the protocol prescribes for a handler's result
WireForm(res) ==
    IF res.err # "" THEN <<"-", "E", "R", "R", " ", res.err, CR, LF>>
    ELSE IF res.data.null THEN <<"$", "-", "1", CR, LF>>
    ELSE ClientEncode(Bulk(res.data.data))
WireForms(c, n) == Flatten([i \in 1..n |-> WireForm(results[c][i])])

\* The i-th reply on the connection's wire
ReplyAt(c, i) == SubSeq(sent(c), Len(WireForms(c, i - 1)) + 1, Len(WireForms(c, i)))
ErrorStarts(bytes) ==
    {m \in 1..(Len(bytes) - 4) : SubSeq(bytes, m, m + 4) = <<"-", "E", "R", "R", " ">>}
IsErrorReply(bytes) ==
    /\ Len(bytes) = 8
    /\ SubSeq(bytes, 1, 5) = <<"-", "E", "R", "R", " ">>
    /\ SubSeq(bytes, 7, 8) = CRLF
    /\ bytes[6] \notin {CR, LF}

NullReply == <<"$", "-", "1", CR, LF>>
BulkReply(payload) == ClientEncode(Bulk(payload))

IsCommand(item) == item.class \in {"cmd", "err"}
OnlyCommands(p) == \A i \in DOMAIN p : IsCommand(p[i])
\* The requests sent in full before anything else
RECURSIVE LeadingCommands(_)
LeadingCommands(p) ==
    IF p = <<>> \/ ~IsCommand(Head(p)) THEN <<>>
    ELSE <<Head(p)>> \o LeadingCommands(Tail(p))
Reference(p) == [i \in DOMAIN p |-> RESPCommand(p[i].op, p[i].args)]
\* A parsed value by its bytes alone, wherever they lie in the buffer
RECURSIVE Plain(_)
Plain(v) ==
    IF v.type = "Array" THEN [v EXCEPT !.elems = [i \in DOMAIN v.elems |-> Plain(v.elems[i])]]
    ELSE [v EXCEPT !.off = 0]
\* The commands ReadCommands has returned on the connection, by their bytes
Returned(c) ==
    [i \in DOMAIN parsed[c] |->
        RESPCommand(parsed[c][i].Type,
                    [j \in DOMAIN parsed[c][i].Args |-> Plain(parsed[c][i].Args[j])])]

Max(xs) == CHOOSE x \in xs : \A y \in xs : y <= x
IsPrefix(a, b) == Len(a) <= Len(b) /\ a = SubSeq(b, 1, Len(a))

FetchDone(j) == hist[j].ev = "unlock" /\ hist[j].op = GET
StoreDone(i) == hist[i].ev = "unlock" /\ hist[i].op = SET
\* The event at which the call that ended at hist[j] took the lock
LockOf(j) == Max({a \in 1..j : hist[a].ev = "lock" /\ hist[a].conn = hist[j].conn})

\* C1: once Store(K, P) has completed, every Fetch(K) issued later on any
\* connection replies P, as long as no other Store on K has taken effect.
C1_FetchAfterStore ==
    \A i, j \in DOMAIN hist :
        ( /\ StoreDone(i) /\ FetchDone(j)
          /\ hist[i].key = hist[j].key
          /\ i < LockOf(j)
          /\ \A m \in (i + 1)..j : ~(StoreDone(m) /\ hist[m].key = hist[i].key) )
        => hist[j].reply = BulkReply(hist[i].val)

\* A Fetch on one connection has replied the payload stored by the other
C1_Witness ==
    \E i, j \in DOMAIN hist :
        /\ StoreDone(i) /\ FetchDone(j) /\ i < LockOf(j)
        /\ hist[i].conn # hist[j].conn
        /\ hist[i].key = hist[j].key
        /\ hist[j].reply = BulkReply(hist[i].val)
        /\ \E m \in 1..(i - 1) : StoreDone(m) /\ hist[m].key = hist[i].key

\* What the server must answer a request with, where the request fixes it
Matches(item, res) ==
    CASE item.class = "err" -> res.err # ""
      [] item.class = "cmd" /\ item.op = SET -> res = Result(StringData(item.args[2].data, FALSE), "")
      [] item.class = "cmd" /\ item.op = ECHO -> res = Result(StringData(item.args[1].data, FALSE), "")
      [] item.class = "cmd" /\ item.op = GET -> res.err = "" /\ res.data.kind = "StringData"
      [] OTHER -> FALSE

\* C2: each connection writes exactly one reply per dispatched command, and
\* the replies are on the wire in the order of the commands in its byte
\* stream, within a batch and across batches.
C2_RepliesInOrder ==
    \A c \in Conns :
        /\ Len(results[c]) <= Len(prog[c])
        /\ \A i \in DOMAIN results[c] : Matches(prog[c][i], results[c][i])
        /\ sent(c) = WireForms(c, Len(results[c]))
        /\ IsPrefix(wire[c], sent(c))

\* Three commands answered in order, the replies of two batches on the wire
C2_Witness ==
    \E c \in Conns :
        /\ prog[c] = <<EchoA, GetNoArgs, EchoB>>
        /\ Len(results[c]) = 3
        /\ pc[c] = "done"
        /\ wire[c] = BulkReply(<<"a">>) \o ReplyAt(c, 2) \o BulkReply(<<"b">>)
        /\ Len(net[c]) = 0

\* C3: however a valid request stream is cut in two, the batches ReadCommands
\* returns add up to the commands of the stream, the same as when it arrives
\* in one piece: none lost, duplicated or altered.
C3_SplitSameCommands ==
    \A c \in Conns :
        OnlyCommands(prog[c]) =>
            /\ IsPrefix(Returned(c), Reference(prog[c]))
            /\ (pc[c] = "done" => Returned(c) = Reference(prog[c]))

\* A stream cut inside a frame (here inside the CRLF of a bulk body) has been
\* read to its end and all its commands returned
C3_Witness ==
    /\ prog[1] = <<SetK2CRLF, GetK2, EchoB>>
    /\ feed[1] = CutAt(StreamOf(prog[1]), 19)
    /\ pc[1] = "done"
    /\ Len(parsed[1]) = 3
    /\ parsed[1][1].Args[2].data = ValCRLF
    /\ Len(reader[1].buffer) > InitialBufSize

\* C4: whatever bytes a client sends, the connection loop ends only by
\* returning nil or an error, never through a run-time fault.
C4_NoRuntimeFault == ~crashed

\* C5: when each key is written by one connection only, every Fetch that
\* connection issues replies the value of its last Store on the key before the
\* Fetch, or the null bulk string if there was none.
OwnStores(c, i, key) ==
    {m \in 1..(i - 1) : prog[c][m].class = "cmd" /\ prog[c][m].op = SET
                        /\ prog[c][m].args[1].data = key}
WrittenBy(c, key) ==
    \E m \in DOMAIN prog[c] : prog[c][m].op = SET /\ ArgData(prog[c][m], 1) = key
C5_OwnKeyFetch ==
    \A c \in Conns : \A i \in DOMAIN results[c] :
        LET item == ItemAt(c, i)
            key == ArgData(item, 1)
        IN ( /\ item.class = "cmd" /\ item.op = GET
             /\ \A d \in Conns \ {c} : ~WrittenBy(d, key) )
           => ReplyAt(c, i) = IF OwnStores(c, i, key) = {} THEN NullReply
                              ELSE BulkReply(prog[c][Max(OwnStores(c, i, key))].args[2].data)

\* Both connections have stored and fetched keys of their own
C5_Witness ==
    /\ prog[1] = <<SetK1V1, GetK1>> /\ prog[2] = <<SetK2CRLF, GetK2>>
    /\ Len(results[1]) = 2 /\ Len(results[2]) = 2
    /\ ReplyAt(1, 2) = BulkReply(Val1)
    /\ ReplyAt(2, 2) = BulkReply(ValCRLF)
    /\ hist[1].conn = 2 /\ hist[3].conn = 1 /\ hist[5].conn = 2

\* C6: a Fetch concurrent with Stores on its key replies null if no Store took
\* the keyspace lock before the Fetch took it, and otherwise exactly the
\* payload of the latest such Store; never a partial or unwritten payload.
C6_LockOrder ==
    \A j \in DOMAIN hist :
        FetchDone(j) =>
            LET stores == {i \in 1..LockOf(j) : hist[i].ev = "lock" /\ hist[i].op = SET
                                                /\ hist[i].key = hist[j].key}
            IN hist[j].reply = IF stores = {} THEN NullReply
                               ELSE BulkReply(hist[Max(stores)].val)

\* Both connections' Stores on the key took the lock before a Fetch did, and
\* the Fetch replied the later one's payload
C6_Witness ==
    \E j \in DOMAIN hist :
        /\ FetchDone(j)
        /\ Cardinality({hist[i].conn : i \in {m \in 1..LockOf(j) : hist[m].op = SET
                                                   /\ hist[m].key = hist[j].key}}) = 2
        /\ hist[j].reply = BulkReply(Val1)
        /\ hist[j].conn = 2

ProtocolErrors == {"parsing buffer command"}
FatalErrors == ProtocolErrors \cup {"error casting value to RESPArray", "error parsing command"}

\* C7: on a protocol error (unknown type byte, unparseable integer field) the
\* connection loop writes -ERR <reason>\r\n, flushes it, and closes.
C7_ProtocolErrorReply ==
    \A c \in Conns :
        exit[c] \in ProtocolErrors =>
            /\ ~connOpen[c]
            /\ outbuf[c] = <<>>
            /\ Len(wire[c]) >= 8
            /\ IsErrorReply(SubSeq(wire[c], Len(wire[c]) - 7, Len(wire[c])))

\* C8: a known command with wrong arity or a non-string argument gets exactly
\* one -ERR reply in its position, and the connection stays open: the
\* commands after it are executed and answered.
C8_CommandErrorKeepsOpen ==
    \A c \in Conns :
        /\ \A i \in DOMAIN results[c] :
              ItemAt(c, i).class = "err" => IsErrorReply(ReplyAt(c, i))
        /\ Cardinality(ErrorStarts(sent(c)))
              = Cardinality({i \in DOMAIN results[c] : ItemAt(c, i).class = "err"})
        /\ OnlyCommands(prog[c]) =>
              /\ exit[c] \in {"", "nil"}
              /\ connOpen[c] = (exit[c] = "")
              /\ exit[c] = "nil" => /\ Len(results[c]) = Len(prog[c])
                                    /\ wire[c] = WireForms(c, Len(prog[c]))

\* An error reply was followed by the reply to the next command, and the
\* connection ran to the end of its stream
C8_Witness ==
    \E c \in Conns :
        /\ prog[c] = <<SetOneArg, SetK1V1, EchoTwoArgs>>
        /\ exit[c] = "nil"
        /\ IsErrorReply(ReplyAt(c, 1))
        /\ ReplyAt(c, 2) = BulkReply(Val1)
        /\ IsErrorReply(ReplyAt(c, 3))
        /\ Key1 \in DOMAIN store

\* C9: when a batch ends in a fatal condition, the commands parsed before the
\* offending frame in that batch are dispatched and their replies flushed
\* before the connection is closed.
C9_BatchBeforeFatal ==
    \A c \in Conns :
        exit[c] \in FatalErrors =>
            /\ Len(results[c]) = Len(parsed[c])
            /\ wire[c] = WireForms(c, Len(parsed[c]))

\* C10: when the peer closes cleanly, the batch returned with end-of-stream is
\* empty, and every command received in full before the close has been
\* dispatched and its reply flushed.
C10_NothingLostAtEOF ==
    \A c \in Conns :
        exit[c] = "nil" =>
            /\ dropped[c] = <<>>
            /\ Returned(c) = Reference(LeadingCommands(prog[c]))
            /\ Len(results[c]) = Len(parsed[c])
            /\ outbuf[c] = <<>>
            /\ wire[c] = WireForms(c, Len(results[c]))

\* End-of-stream arrived with the start of a frame left in the buffer, after
\* a command had been answered
C10_Witness ==
    \E c \in Conns :
        /\ exit[c] = "nil"
        /\ prog[c] = <<GetK1, HalfSet>>
        /\ reader[c].writeIndex - reader[c].readIndex = Len(HalfSet.bytes)
        /\ Len(wire[c]) > 0

\* The Stores on a key that have taken effect
StoresOn(key) == {i \in DOMAIN hist : StoreDone(i) /\ hist[i].key = key}

\* C15: every record of the keyspace holds bytes of its own, not a slice of a
\* read buffer, and they are the bytes sent in the Store that wrote it, whatever
\* the connection's buffer has been through since.
C15_StoredBytesAreCopies ==
    \A key \in DOMAIN store :
        /\ StoresOn(key) # {}
        /\ store[key].data.off = -1
        /\ Deref(store[key].data) = hist[Max(StoresOn(key))].val

\* The payload of a Store is gone from every buffer of its connection, written
\* over by a later request, and a Fetch has still replied it
C15_Witness ==
    \E c \in Conns :
        /\ prog[c] = <<SetK1V1, SetK2V2, GetK1>>
        /\ exit[c] = "nil"
        /\ Key1 \in DOMAIN store /\ Deref(store[Key1].data) = Val1
        /\ ReplyAt(c, 3) = BulkReply(Val1)
        /\ retired[c] # <<>>
        /\ \A i \in DOMAIN reader[c].buffer : reader[c].buffer[i] # Val1[1]
        /\ \A g \in DOMAIN retired[c] : \A i \in DOMAIN retired[c][g] : retired[c][g][i] # Val1[1]

\* The batches ReadCommands returned without error, by their place in calls
Batches(c) ==
    {i \in DOMAIN calls[c] : calls[c][i].call = "ReadCommands" /\ calls[c][i].err = ""}
\* The place of the next call of ReadCommands after i, past the end if none
NextRead(c, i) ==
    LET later == {j \in (i + 1)..Len(calls[c]) : calls[c][j].call = "ReadCommands"}
    IN IF later = {} THEN Len(calls[c]) + 1 ELSE CHOOSE j \in later : \A k \in later : j <= k
\* The calls the loop made for the batch returned at i
CallsFor(c, i) == [k \in 1..(NextRead(c, i) - 1 - i) |-> calls[c][i + k].call]
\* n replies written, then one flush
WritesThenFlush(n) == [k \in 1..(n + 1) |-> IF k <= n THEN "Write" ELSE "Flush"]
\* The loop is past the batch returned at i: it has read again, or returned
PastBatch(c, i) == NextRead(c, i) <= Len(calls[c]) \/ pc[c] = "done"
\* Writing a reply of the batch returned at i gave an error
WriteFailed(c, i) ==
    \E k \in (i + 1)..(NextRead(c, i) - 1) : calls[c][k].call = "Write" /\ calls[c][k].err # ""

\* C11 as stated: for every batch returned without error the loop calls Flush
\* exactly once, after the batch's last reply and before the next read, and
\* never between two replies.
C11_FlushOncePerBatch ==
    \A c \in Conns : \A i \in Batches(c) :
        /\ IsPrefix(CallsFor(c, i), WritesThenFlush(calls[c][i].n))
        /\ PastBatch(c, i) => CallsFor(c, i) = WritesThenFlush(calls[c][i].n)

\* C11, amended: for every batch returned without error the loop calls Flush
\* exactly once, after the batch's last reply and before the next read, and
\* never between two replies; unless the write of one of the replies returns
\* an error, on which the loop returns at once without a call of Flush.
C11_FlushOncePerBatchUnlessWriteFails ==
    \A c \in Conns : \A i \in Batches(c) :
        /\ IsPrefix(CallsFor(c, i), WritesThenFlush(calls[c][i].n))
        /\ IF WriteFailed(c, i)
           THEN /\ pc[c] = "done" /\ exit[c] \in {"writing error", "writing response"}
                /\ NextRead(c, i) = Len(calls[c]) + 1
                /\ calls[c][Len(calls[c])].err # ""
                /\ \A k \in DOMAIN CallsFor(c, i) : CallsFor(c, i)[k] = "Write"
           ELSE PastBatch(c, i) => CallsFor(c, i) = WritesThenFlush(calls[c][i].n)

\* A batch of two commands whose replies overflowed the writer's buffer got
\* its one flush after the second reply, and an empty batch got its flush too
C11_Witness ==
    \E c \in Conns :
        /\ exit[c] = "nil"
        /\ \E i \in Batches(c) :
              /\ calls[c][i].n = 2
              /\ CallsFor(c, i) = <<"Write", "Write", "Flush">>
              /\ Len(WireForms(c, 2)) > WriterBufSize
        /\ \E i \in Batches(c) : calls[c][i].n = 0 /\ CallsFor(c, i) = <<"Flush">>

\* The request whose command the connection is running
Current(c) == ItemAt(c, Len(results[c]) + 1)
\* The step in which the connection's command returns and its reply is written
Answers(c) == Len(results'[c]) = Len(results[c]) + 1
\* The bytes that step writes
Answer(c) == SubSeq(wire'[c] \o outbuf'[c], Len(sent(c)) + 1, Len(wire'[c] \o outbuf'[c]))
\* An argument frame as a bulk string on the wire
AsBulk(arg) == IF arg.null THEN NullReply ELSE BulkReply(arg.data)
IsString(arg) == arg.type \in {"SimpleString", "BulkString"}

\* C12 as stated: a Store with key K and value V, a simple or bulk string, the
\* empty and the nil one included, replies V as a bulk string and leaves K
\* mapped to a Bytes record holding V with no expiry, whatever follows the
\* second argument.
C12_StoreRepliesValue ==
    [][\A c \in Conns :
          (Answers(c) /\ Current(c).class = "cmd" /\ Current(c).op = SET) =>
              LET K == Current(c).args[1].data
                  V == Current(c).args[2]
              IN /\ Answer(c) = AsBulk(V)
                 /\ store' = MapSet(store, K, MiniRedisObject(StringData(V.data, V.null), ZeroTime))
      ]_vars

\* C12, amended: as stated for every value but the nil bulk string, which is
\* stored and replied as the empty bulk string.
C12_StoreRepliesValueNilAsEmpty ==
    [][\A c \in Conns :
          (Answers(c) /\ Current(c).class = "cmd" /\ Current(c).op = SET) =>
              LET K == Current(c).args[1].data
                  V == Current(c).args[2]
              IN /\ Answer(c) = BulkReply(V.data)
                 /\ store' = MapSet(store, K, MiniRedisObject(StringData(V.data, FALSE), ZeroTime))
      ]_vars

\* A Store of the nil bulk string was replied $0, and a Store with four
\* arguments has stored its second
C12_Witness ==
    /\ prog[1] = <<SetK1Null, GetK1, SetK2Extra>>
    /\ Len(results[1]) = 3
    /\ ReplyAt(1, 1) = <<"$", "0", CR, LF, CR, LF>>
    /\ ReplyAt(1, 3) = BulkReply(Val1)
    /\ store[Key2] = MiniRedisObject(StringData(Val1, FALSE), ZeroTime)

\* C13: a Fetch of a key with no record in the keyspace replies exactly the
\* null bulk string, not an empty bulk string and not an error.
C13_FetchAbsentRepliesNull ==
    [][\A c \in Conns :
          ( /\ Answers(c) /\ Current(c).class = "cmd" /\ Current(c).op = GET
            /\ Current(c).args[1].data \notin DOMAIN store )
          => Answer(c) = <<"$", "-", "1", CR, LF>>
      ]_vars

\* A Fetch of a key never stored was replied null while the keyspace held
\* another key
C13_Witness ==
    /\ prog[1] = <<SetK1Empty, GetK1, GetK2>>
    /\ Len(results[1]) = 3
    /\ ReplyAt(1, 3) = NullReply
    /\ DOMAIN store = {Key1}

\* C14: Echo with one string argument replies the argument as a bulk string,
\* byte for byte; with any other number of arguments it replies an error; in
\* both cases the keyspace is as it was.
C14_EchoRepliesArgument ==
    [][\A c \in Conns :
          (Answers(c) /\ IsCommand(Current(c)) /\ Current(c).op = ECHO) =>
              /\ store' = store
              /\ Len(Current(c).args) # 1 => IsErrorReply(Answer(c))
              /\ (Len(Current(c).args) = 1 /\ IsString(Current(c).args[1]))
                    => Answer(c) = AsBulk(Current(c).args[1])
      ]_vars

\* Echoes of a string with CR LF inside, of a simple, an empty and a nil
\* string were replied in kind, and Echoes of two and of no arguments with an
\* error, beside a keyspace that holds the other connection's key only
C14_Witness ==
    /\ prog[1] = <<EchoCRLF, EchoB, EchoEmpty, EchoNull, EchoTwoArgs, EchoNoArgs, EchoInt>>
    /\ exit[1] = "nil"
    /\ SubSeq(wire[1], 1, Len(WireForms(1, 4)))
         = BulkReply(ValCRLF) \o BulkReply(<<"b">>) \o BulkReply(<<>>) \o NullReply
    /\ IsErrorReply(ReplyAt(1, 5)) /\ IsErrorReply(ReplyAt(1, 6))
    /\ DOMAIN store = {Key1}

-----------------------------------------------------------------------------
(* Serialization and its round trip *)

\* The number a string of decimal digits writes
RECURSIVE DecimalValue(_)
DecimalValue(ds) ==
    IF ds = <<>> THEN 0
    ELSE 10 * DecimalValue(SubSeq(ds, 1, Len(ds) - 1))
            + (CHOOSE d \in 0..9 : Digits[d + 1] = ds[Len(ds)])
\* ds is the decimal numeral of n >= 0: digits only, no leading zero
IsNumeral(ds, n) ==
    /\ ds # <<>>
    /\ \A i \in DOMAIN ds : ds[i] \in Range(Digits)
    /\ Len(ds) > 1 => ds[1] # "0"
    /\ DecimalValue(ds) = n
\* ds is the decimal form of the integer n: a minus sign for n < 0 only
IsDecimal(ds, n) ==
    IF n < 0 THEN ds # <<>> /\ ds[1] = "-" /\ IsNumeral(Tail(ds), -n)
    ELSE IsNumeral(ds, n)

Serialized == call.fn = "Serialize" /\ call.stage = "returned"

\* C16: Serialize of a StringData holding the bytes s returns "$", the decimal
\* form of len(s), CR LF, s itself, CR LF, whatever bytes s holds and also when
\* it holds none; Serialize of an IntegerData holding n returns ":", the
\* decimal form of n, CR LF, for every n from the least to the greatest int64
C16_SerializeWireForm ==
    (Serialized /\ ~call.arg.null) =>
        \E k \in 1..Len(call.out) :
            LET d == SubSeq(call.out, 2, k)
            IN IF call.arg.kind = "StringData"
               THEN /\ IsDecimal(d, Len(call.arg.data))
                    /\ call.out = <<"$">> \o d \o CRLF \o call.arg.data \o CRLF
               ELSE /\ IsDecimal(d, call.arg.int)
                    /\ call.out = <<":">> \o d \o CRLF

\* A payload whose length takes two digits has been serialized
C16_Witness ==
    /\ Serialized
    /\ call.arg.kind = "StringData"
    /\ Len(call.arg.data) >= 10
    /\ Len(call.out) = Len(call.arg.data) + 7

\* C17: Serialize of a StringData whose data is nil (not merely empty) returns
\* "$-1" CR LF
C17_SerializeNilIsNullReply ==
    (Serialized /\ call.arg.kind = "StringData" /\ call.arg.null) => call.out = NullReply

\* C18: when the bytes the writer has emitted for a bulk payload (nil, empty,
\* or any bytes, CR LF among them) or for an integer are parsed, the parse
\* succeeds, gives back the same payload (nil for nil, empty for empty) or the
\* same integer, and has consumed as many bytes as were emitted
C18_WriteParseRoundTrip ==
    call.stage = "parsed" =>
        /\ call.back.status = "ok"
        /\ call.back.consumed = Len(call.out)
        /\ IF call.arg.kind = "StringData"
           THEN /\ call.back.value.type = "BulkString"
                /\ call.back.value.null = call.arg.null
                /\ call.back.value.data = call.arg.data
           ELSE /\ call.back.value.type = "Integer"
                /\ call.back.value.int = call.arg.int

\* A payload with CR LF inside has come back from the parser
C18_Witness ==
    /\ call.stage = "parsed"
    /\ call.back.status = "ok"
    /\ call.arg.kind = "StringData"
    /\ \E i \in 1..(Len(call.arg.data) - 1) : call.arg.data[i] = CR /\ call.arg.data[i + 1] = LF
    /\ call.back.value.data = call.arg.data

-----------------------------------------------------------------------------
(* The map's lock *)

\* Thread t is inside a call's critical section
Inside(t) == tpc[t] # "idle"
IsWriter(t) == ThreadOp(t).op \in {"Set", "Delete", "Update"}
Holders == mutex.readers \cup mutex.writer

\* C19: while a Set, a Delete or an Update is inside its critical section no
\* other call is inside one, be it a writer or a Get; and a thread that is
\* not inside a call holds no lock: every call has released what it took
\* (several Get calls can be inside together: C19_Witness is such a state)
C19_WritersExclusive ==
    /\ \A t \in Threads : \A u \in Threads \ {t} :
           (Inside(t) /\ IsWriter(t)) => ~Inside(u)
    /\ \A t \in Threads : ~Inside(t) => t \notin Holders

\* Two Get calls are inside together, and a writer has been inside and left
C19_Witness ==
    /\ \A t \in Threads : Inside(t) /\ ThreadOp(t).op = "Get"
    /\ mutex.readers = Threads
    /\ \E t \in Threads : Len(tret[t]) = 2 /\ tret[t][2].op = "Update"

\* The Update calls on CounterKey that have returned, with the given outcome
UpdatesDone(ok) ==
    UNION {{<<t, i>> : i \in {j \in DOMAIN tret[t] :
                                  tprog[t][j] = OpUpdate(CounterKey) /\ tret[t][j].ok = ok}}
           : t \in Threads}
\* No thread sets or deletes CounterKey
OnlyUpdated ==
    \A t \in Threads : \A i \in DOMAIN tprog[t] :
        tprog[t][i].key = CounterKey => tprog[t][i].op \in {"Get", "Update"}

\* C20: an Update that returns has, when its key was in the map, returned
\* true and put fn(old value) in place of the value, all else kept; when the
\* key was not in the map, returned false and left the map as it was. And
\* where threads only Update (or Get) a key concurrently, its value is the
\* initial value plus the number of Updates returned: none is lost
C20_UpdateAtomic ==
    /\ [][\A t \in Threads :
             (tpc[t] = "loaded" /\ tpc'[t] = "idle") =>
                 LET k == ThreadOp(t).key
                     ret == tret'[t][Len(tret'[t])]
                 IN IF k \in DOMAIN store
                    THEN ret.ok /\ store' = [store EXCEPT ![k] = store[k] + 1]
                    ELSE ~ret.ok /\ store' = store]_vars
    /\ [](OnlyUpdated =>
             /\ CounterKey \in DOMAIN store
             /\ store[CounterKey] = InitialCounter + Cardinality(UpdatesDone(TRUE))
             /\ UpdatesDone(FALSE) = {})

\* Every thread has run its two Updates of the counter beside those of the others,
\* and the counter has gained two for each thread
C20_Witness ==
    /\ \A t \in Threads : tprog[t] = <<OpUpdate(CounterKey), OpUpdate(CounterKey)>>
    /\ \A t \in Threads : Len(tret[t]) = 2
    /\ store[CounterKey] = InitialCounter + 2 * NumThreads

-----------------------------------------------------------------------------
(* Repeated commands *)

AnyStoreDone == {i \in DOMAIN hist : StoreDone(i)}

\* C21: the step in which a Fetch reads the keyspace and replies leaves the
\* keyspace as it was; and of two Fetches of a key between which no Store on
\* that key has taken effect, the later replies the same bytes as the earlier
C21_FetchReadOnly ==
    /\ [][\A c \in Conns :
             (Answers(c) /\ IsCommand(Current(c)) /\ Current(c).op = GET) => store' = store]_vars
    /\ [](\A i, j \in DOMAIN hist :
             ( /\ i < j /\ FetchDone(i) /\ FetchDone(j)
               /\ hist[i].key = hist[j].key
               /\ \A m \in (i + 1)..(j - 1) : ~(StoreDone(m) /\ hist[m].key = hist[i].key) )
             => hist[j].reply = hist[i].reply)

\* A connection has fetched a stored key twice and got its payload twice,
\* the other connection's Store on the key taking effect only afterwards
C21_Witness ==
    /\ prog[1] = <<SetK1V1, GetK1, GetK1>>
    /\ Len(results[1]) = 3
    /\ ReplyAt(1, 2) = BulkReply(Val1)
    /\ ReplyAt(1, 3) = BulkReply(Val1)
    /\ Key1 \in DOMAIN store /\ Deref(store[Key1].data) = Val2

\* C22: a Store of K and V that takes effect right after a Store of the same
\* K and V (no Store in between) leaves the keyspace as it was, so that every
\* later Fetch sees what it would have seen after the first alone, and
\* replies the same bytes as the first did
C22_StoreIdempotent ==
    [][\A c \in Conns :
          ( /\ Answers(c) /\ Current(c).class = "cmd" /\ Current(c).op = SET
            /\ AnyStoreDone # {}
            /\ hist[Max(AnyStoreDone)].key = Current(c).args[1].data
            /\ hist[Max(AnyStoreDone)].val = Current(c).args[2].data )
          => /\ store' = store
             /\ Answer(c) = hist[Max(AnyStoreDone)].reply
      ]_vars

\* A connection has stored the same key and payload twice in a row, after the
\* other connection's Store on the key, and has then fetched the payload
C22_Witness ==
    /\ prog[1] = <<SetK1V1, SetK1V1, GetK1>>
    /\ Len(results[1]) = 3
    /\ ReplyAt(1, 1) = BulkReply(Val1)
    /\ ReplyAt(1, 2) = BulkReply(Val1)
    /\ ReplyAt(1, 3) = BulkReply(Val1)
    /\ \E i \in DOMAIN hist :
          /\ StoreDone(i) /\ hist[i].conn = 2
          /\ \A m \in AnyStoreDone : m > i => hist[m].conn = 1
          /\ Cardinality({m \in AnyStoreDone : m > i}) = 2

-----------------------------------------------------------------------------
(* Leaving the connection loop *)

\* What HandleConnection returns: nil, or one of its wrapped errors
Exits == FatalErrors \cup {"nil", "reading from reader", "writing error", "writing response", "flushing"}

\* C23: once HandleConnection has been left, its connection is closed,
\* whichever way it was left: the clean end of the stream, a frame that cannot
\* be parsed or is no command, a failed read, a failed write or flush
C23_ClosedOnEveryExit ==
    \A c \in Conns :
        /\ pc[c] \in {"done", "panic"} => ~connOpen[c]
        /\ exit[c] # "" => exit[c] \in Exits /\ pc[c] = "done" /\ ~connOpen[c]

\* One connection was left on a failed read and the other at the clean end
\* of its stream, and both are closed
C23_Witness ==
    /\ exit[1] = "reading from reader"
    /\ exit[2] = "nil"
    /\ \A c \in Conns : ~connOpen[c]
    /\ Len(results[1]) = 2

-----------------------------------------------------------------------------
(* The reader's buffer *)

\* The length of the longest frame the connection's client sends at all: no
\* frame received so far is longer
LargestFrame(c) == Max({0} \cup {Len(prog[c][i].bytes) : i \in DOMAIN prog[c]})

\* C24: the capacity of the reader's buffer is at most twice the length of
\* the largest frame received plus the capacity it was created with
C24_BufferWithinTwiceLargestFrame ==
    \A c \in Conns : Len(reader[c].buffer) <= 2 * LargestFrame(c) + InitialBufSize

\* The buffer the connection's reader had when it had replaced gen buffers
BufferOf(c, gen) == IF gen = Len(retired[c]) THEN reader[c].buffer ELSE retired[c][gen + 1]
\* The bytes a returned frame's data holds now
FrameBytes(c, gen, v) == Slice(BufferOf(c, gen), v.off, v.off + Len(v.data))

\* C25: every bulk string of a command ReadCommands has returned still holds
\* the bytes it was parsed with, whatever the reader has done to its buffer
\* since: shifted it, replaced it by a larger one, or read into it again
C25_FramesKeepTheirBytes ==
    \A c \in Conns : \A i \in DOMAIN parsed[c] : \A j \in DOMAIN parsed[c][i].Args :
        LET v == parsed[c][i].Args[j]
        IN (v.type = "BulkString" /\ ~v.null) => FrameBytes(c, parsed[c][i].gen, v) = v.data

-----------------------------------------------------------------------------
(* The frame parser *)

Parsed == call.fn = "parseSingleValue" /\ call.stage = "parsed"
TypeBytes == {"+", "-", ":", "$", "*"}

\* C26: for a bulk string of any length L >= 0 an int64 can hold, the parser
\* returns incomplete whenever fewer than L + 2 bytes follow the length line,
\* also where L + consumed + 2 is beyond the int64 range; and whenever it
\* returns ok it has consumed no more than the buffer holds
C26_BulkLengthTestExact ==
    (Parsed /\ call.arg.kind = "bulk") =>
        /\ (call.arg.L >= 0 /\ Len(call.arg.body) < call.arg.L + 2)
              => call.back.status = "incomplete"
        /\ call.back.status = "ok" => call.back.consumed <= Len(call.out)

\* C28: a bulk string of any negative length parses to the nil payload and
\* consumes its length line with the CR LF and nothing of what follows; a
\* bulk string of length 0 followed by CR LF parses to an empty payload that
\* is not nil, and consumes the six bytes "$0" CR LF CR LF
C28_NegativeLengthIsNil ==
    (Parsed /\ call.arg.kind = "bulk") =>
        /\ call.arg.L < 0 =>
              /\ call.back.status = "ok"
              /\ call.back.value.type = "BulkString"
              /\ call.back.value.null
              /\ call.back.consumed = Len(call.out) - Len(call.arg.body)
        /\ (call.arg.L = 0 /\ Len(call.arg.body) >= 2 /\ call.arg.body[1] = CR /\ call.arg.body[2] = LF) =>
              /\ call.back.status = "ok"
              /\ call.back.value.type = "BulkString"
              /\ ~call.back.value.null
              /\ call.back.value.data = <<>>
              /\ call.back.consumed = Len(<<"$", "0", CR, LF, CR, LF>>)

\* A bulk string of the least length an int64 holds, with bytes after its
\* length line, has parsed to nil and left those bytes
C28_Witness ==
    /\ Parsed
    /\ call.arg.kind = "bulk"
    /\ call.arg.L = -MaxInt64 - 1
    /\ Len(call.arg.body) = 5
    /\ call.back.status = "ok" /\ call.back.value.null
    /\ call.back.consumed = Len(call.out) - 5

\* C29: a whole frame that starts with "+", "-", ":", "$" or "*" parses ok,
\* and a buffer that starts with any other byte is malformed
C29_DispatchOnFiveTypeBytes ==
    (Parsed /\ call.arg.kind = "frame" /\ call.out # <<>>) =>
        IF call.out[1] \in TypeBytes
        THEN call.arg.whole => call.back.status = "ok" /\ call.back.consumed = Len(call.out)
        ELSE call.back.status = "malformed"

-----------------------------------------------------------------------------
(* Partial frames *)

\* How many bytes of its client's stream the connection has read, and how
\* many of them belong to the frames returned as commands
Received(c) == Len(StreamOf(prog[c])) - Len(Flatten(net[c]))
Taken(c) == Len(StreamOf(SubSeq(prog[c], 1, Len(parsed[c]))))
Reads(c) == {i \in DOMAIN calls[c] : calls[c][i].call = "ReadCommands"}

\* C27: a parse that reports a frame incomplete, be it an array with an
\* element missing or cut short at any depth, reports zero bytes consumed;
\* and while the connection is served the reader holds, from readIndex on,
\* exactly the bytes received after the frames it has returned: the partial
\* frame from its first byte, nothing skipped and nothing kept twice
C27_IncompleteConsumesNothing ==
    \A c \in Conns :
        /\ \A i \in Reads(c) :
              calls[c][i].last.status = "incomplete" => calls[c][i].last.consumed = 0
        /\ (exit[c] \in {"", "nil"} /\ pc[c] # "panic") =>
              Slice(reader[c].buffer, reader[c].readIndex, reader[c].writeIndex)
                 = SubSeq(StreamOf(prog[c]), Taken(c) + 1, Received(c))

\* A request has been returned and the next one, an array with an array
\* inside, is in the buffer up to the middle of the inner array
C27_Witness ==
    /\ prog[1] = <<GetNoArgs, SetArrayKey, EchoA>>
    /\ Len(parsed[1]) = 1
    /\ calls[1][Max(Reads(1))].last = Last("incomplete", 0)
    /\ reader[1].writeIndex - reader[1].readIndex = 16
    /\ Slice(reader[1].buffer, reader[1].readIndex, reader[1].writeIndex)
          = SubSeq(SetArrayKey.bytes, 1, 16)

-----------------------------------------------------------------------------
(* The reader's indices *)

\* C30: after every call of ReadCommands, the ones that return an error and
\* the one that faults included, 0 <= readIndex <= writeIndex <= len(buffer);
\* and no step makes a connection's buffer shorter
C30_IndicesOrdered ==
    /\ [](\A c \in Conns :
            /\ 0 <= reader[c].readIndex
            /\ reader[c].readIndex <= reader[c].writeIndex
            /\ reader[c].writeIndex <= Len(reader[c].buffer))
    /\ [][\A c \in Conns : Len(reader'[c].buffer) >= Len(reader[c].buffer)]_vars

\* A call has returned an error on a buffer that has grown, with a request
\* consumed before the bytes that could not be parsed
C30_Witness ==
    \E c \in Conns :
        /\ exit[c] \notin {"", "nil"}
        /\ Len(reader[c].buffer) > InitialBufSize
        /\ 0 < reader[c].readIndex
        /\ reader[c].readIndex < reader[c].writeIndex

-----------------------------------------------------------------------------
(* Frames longer than the buffer *)

\* The reader as ReadCommands has it when it calls Read
AtRead(c) == growBuffer(shiftBuffer(reader[c]))
\* The step is a call of ReadCommands on connection c
ReadStep(c) == Len(calls'[c]) > Len(calls[c]) /\ calls'[c][Len(calls'[c])].call = "ReadCommands"

-----------------------------------------------------------------------------
(* Command normalization *)

Normalized == call.fn = "ParseCommand" /\ call.stage = "normalized"

\* C32: an array whose first element is a simple or bulk string spelling
\* set, get or echo in any mix of upper and lower case becomes the command
\* SET, GET or ECHO with the elements after the first as its arguments, in
\* their order and as they were; an array without elements, empty or null,
\* and an array whose first element is not a string, is answered with an
\* error
C32_CommandNormalized ==
    Normalized =>
        /\ (call.arg.op # <<>>) =>
              /\ call.back.err = ""
              /\ call.back.cmd.Type = call.arg.op
              /\ call.back.cmd.Args = call.arg.rest
        /\ (call.arg.empty \/ ~call.arg.str) => call.back.err # ""

\* echo in mixed case, as a simple string, before two arguments of which one
\* is no string
C32_Witness ==
    /\ Normalized
    /\ call.arg.first = RESPSimpleString(<<"e", "C", "h", "O">>)
    /\ call.arg.rest = <<RESPInteger(5), RESPBulkString(Key1)>>
    /\ call.back.cmd = RESPCommand(ECHO, <<RESPInteger(5), RESPBulkString(Key1)>>)

-----------------------------------------------------------------------------
(* Commands the server does not know *)

UnknownCommands == {Ping, DelK1}
\* Where the connection's client sends its command with an unknown name (0:
\* nowhere)
UnknownAt(c) ==
    IF \E j \in DOMAIN prog[c] : prog[c][j] \in UnknownCommands
    THEN CHOOSE j \in DOMAIN prog[c] : prog[c][j] \in UnknownCommands
    ELSE 0
\* The record a Store request leaves
StoredBy(item, key) ==
    /\ item.op = SET
    /\ item.class = "cmd"
    /\ item.args[1].data = key
    /\ store[key].data.data = item.args[2].data

\* C33: on a connection whose client sends a command with a name other than
\* SET, GET and ECHO, no command from that one on is ever run; what the
\* keyspace holds was stored by the requests before it; and the connection
\* ends closed, with the error of the normalization
C33_UnknownCommandIsFatal ==
    \A c \in Conns :
        UnknownAt(c) > 0 =>
            /\ Len(results[c]) < UnknownAt(c)
            /\ \A e \in DOMAIN hist : hist[e].conn = c => hist[e].idx < UnknownAt(c)
            /\ \A key \in DOMAIN store :
                  \E i \in 1..(UnknownAt(c) - 1) : StoredBy(prog[c][i], key)
            /\ pc[c] = "done" => (exit[c] = "error parsing command" /\ ~connOpen[c])

\* A Store answered, then PING: the connection is closed with bytes of the
\* Store that followed PING in the buffer, and its key not in the keyspace
C33_Witness ==
    /\ prog[1] = <<SetK1V1, Ping, SetK2V2>>
    /\ pc[1] = "done"
    /\ ~connOpen[1]
    /\ DOMAIN store = {Key1}
    /\ Len(results[1]) = 1
    /\ reader[1].writeIndex > reader[1].readIndex
    /\ IsPrefix(Slice(reader[1].buffer, reader[1].readIndex, reader[1].writeIndex),
                SetK2V2.bytes)

-----------------------------------------------------------------------------
(* One stream, split in different ways *)

\* How many commands HandleConnection dispatches when the stream is there to
\* be read in one piece: the batches of the ReadCommands calls up to the first
\* that returns an error
RECURSIVE DispatchedWhole(_, _, _)
DispatchedWhole(r, avail, n) ==
    With(ReadCommands(r, avail, "EOF"), LAMBDA res :
        IF res.err # "" THEN n
        ELSE DispatchedWhole(res.reader, SubSeq(avail, res.n + 1, Len(avail)),
                             n + Len(res.commands)))

\* C39: a connection that has ended has run as many commands as it runs when
\* its client's stream arrives in one piece, wherever the stream was cut
C39_SplitIndependent ==
    \A c \in Conns :
        pc[c] = "done" =>
            Len(results[c]) = DispatchedWhole(NewRESPReader(InitialBufSize), StreamOf(prog[c]), 0)

\* The same for the streams that arrive in one piece
C39_WholeAgrees ==
    \A c \in Conns :
        (pc[c] = "done" /\ feed[c] = NonEmpty(Whole(prog[c]))) =>
            Len(results[c]) = DispatchedWhole(NewRESPReader(InitialBufSize), StreamOf(prog[c]), 0)

-----------------------------------------------------------------------------
(* Expiry *)

\* C36: every record of the keyspace has the zero expiry and holds bytes; the
\* keyspace changes only in the step in which a Store writes its record; no
\* Fetch goes on to delete the record it found, and no step removes a key
C36_NoExpiryNoRemoval ==
    /\ [](\A key \in DOMAIN store :
             /\ store[key].expiry = ZeroTime
             /\ store[key].data.kind = "StringData")
    /\ [](\A c \in Conns : pc[c] # "delete")
    /\ [][/\ DOMAIN store \subseteq DOMAIN store'
          /\ store' # store => \E c \in Conns : pc[c] = "set" /\ pc'[c] # "set"]_vars

\* Two keys stored, and a Fetch has found the record of one of them and
\* replied its bytes
C36_Witness ==
    /\ DOMAIN store = {Key1, Key2}
    /\ \E j \in DOMAIN hist :
          /\ FetchDone(j)
          /\ hist[j].reply # NullReply
          /\ hist[j].key \in DOMAIN store

-----------------------------------------------------------------------------
(* Error replies *)

\* The texts of the errors the handlers return
HandlerMessages ==
    { "SET command requires at least 2 arguments",
      "GET command requires exactly 1 argument",
      "ECHO command requires exactly 1 argument",
      "invalid key: expected string, got *miniredis.RESPData",
      "invalid value: expected string, got *miniredis.RESPData",
      "invalid echo param: expected string, got *miniredis.RESPData" }
\* The results answered with an error
Errors(c) == {i \in DOMAIN results[c] : results[c][i].err # ""}

\* C34: every error reply on the wire is "-ERR ", one of the handlers' fixed
\* texts, CR LF: one line, the text not made of anything the client sent;
\* and the wire has as many lines that start an error as errors were
\* answered, whatever CR and LF the requests carry
C34_ErrorRepliesSingleLine ==
    \A c \in Conns :
        /\ \A i \in Errors(c) :
              /\ IsErrorReply(ReplyAt(c, i))
              /\ ReplyAt(c, i)[6] \in HandlerMessages
        /\ Cardinality(ErrorStarts(sent(c))) = Cardinality(Errors(c))

\* ECHO with two arguments that hold CR LF was answered with an error, after
\* a Store under a key with CR LF and before the Fetch of it
C34_Witness ==
    /\ prog[1] = <<SetCRLFKey, EchoTwoCRLF, GetCRLFKey, SetOneCRLF>>
    /\ pc[1] = "done"
    /\ Errors(1) = {2, 4}
    /\ ReplyAt(1, 2) = <<"-", "E", "R", "R", " ", "ECHO command requires exactly 1 argument", CR, LF>>
    /\ ReplyAt(1, 3) = BulkReply(ValCRLF)

\* C38: the step that answers a command with an error leaves the keyspace as
\* it was; and every record of the keyspace was stored by a request with a
\* key and a value that are strings: a Store with an invalid value stores
\* nothing under its key
C38_ErrorLeavesKeyspace ==
    /\ [][\A c \in Conns :
            (Answers(c) /\ results'[c][Len(results'[c])].err # "") => store' = store]_vars
    /\ [](\A key \in DOMAIN store :
             \E c \in Conns : \E i \in DOMAIN prog[c] : StoredBy(prog[c][i], key))

\* SET k2 with an integer for a value was answered with an error, the Fetch
\* of k2 after it with null, and k2 is not in the keyspace
C38_Witness ==
    /\ prog[1] = <<SetK2IntValue, GetK2, SetK2ArrayValue, GetTwoCRLF>>
    /\ pc[1] = "done"
    /\ Errors(1) = {1, 3, 4}
    /\ ReplyAt(1, 2) = NullReply
    /\ Key2 \notin DOMAIN store
    /\ Key1 \in DOMAIN store

-----------------------------------------------------------------------------
(* Failing reads and writes *)

\* The calls that returned a failure of the socket: a read error that is not
\* the end of the stream, the error of a write, the error of a flush
Failures(c) ==
    {i \in DOMAIN calls[c] :
        \/ calls[c][i].call = "ReadCommands" /\ calls[c][i].err = "reading from reader"
        \/ calls[c][i].call \in {"Write", "Flush"} /\ calls[c][i].err # ""}

\* C35: a read that fails with an error other than the end of the stream,
\* and a write or a flush that returns an error, is the last call the loop
\* makes: the connection has ended with that error, no read follows and no
\* byte more reaches the socket; and from the moment a write has failed
\* inside the writer, nothing more reaches the socket and the loop does not
\* come back to the read - it ends at the failing write or at the flush of
\* the batch
C35_FailureEndsLoop ==
    /\ [](\A c \in Conns : \A i \in Failures(c) :
             /\ i = Len(calls[c])
             /\ pc[c] = "done"
             /\ exit[c] = (CASE calls[c][i].call = "ReadCommands" -> "reading from reader"
                             [] calls[c][i].call = "Flush" -> "flushing"
                             [] OTHER -> calls[c][i].err))
    /\ [](\A c \in Conns : werr[c] # "" => pc[c] # "read")
    /\ [][\A c \in Conns :
            (werr[c] # "" \/ Failures(c) # {}) => (wire'[c] = wire[c] /\ ~ReadStep(c))]_vars

\* The socket refused the bytes of a reply that outgrew the writer's buffer;
\* the write returned no error, and the flush of the batch ended the
\* connection
C35_Witness ==
    \E c \in Conns :
        /\ exit[c] = "flushing"
        /\ Len(results[c]) = 1
        /\ Len(WireForms(c, 1)) > WriterBufSize
        /\ wire[c] = <<>>
        /\ calls[c][Len(calls[c]) - 1] = Call("Write", 0, "")
        /\ calls[c][Len(calls[c])] = Call("Flush", 0, "write")

-----------------------------------------------------------------------------
(* Replies and the read buffer *)

\* The Echo requests the connection has answered whose argument is a bulk
\* string: the value replied is a slice of the read buffer
EchoedSlices(c) ==
    {i \in DOMAIN results[c] :
        /\ ItemAt(c, i).class = "cmd"
        /\ ItemAt(c, i).op = ECHO
        /\ ItemAt(c, i).args[1].type = "BulkString"
        /\ ~ItemAt(c, i).args[1].null}

\* C40: whenever the loop is about to call ReadCommands, every command the
\* reader has returned has been answered and the bytes of every reply are in
\* the writer's buffer or on the socket; and the reply to every Echo is its
\* argument as the client sent it, whatever the reader has done to the
\* buffer since
C40_RepliesLeaveBufferBeforeRead ==
    \A c \in Conns :
        /\ pc[c] = "read" =>
              /\ Len(results[c]) = Len(parsed[c])
              /\ sent(c) = WireForms(c, Len(results[c]))
        /\ \A i \in DOMAIN results[c] :
              (ItemAt(c, i).class = "cmd" /\ ItemAt(c, i).op = ECHO)
                 => ReplyAt(c, i) = AsBulk(ItemAt(c, i).args[1])

\* An Echo was answered with the bytes the client sent, and the place of
\* those bytes in the read buffer has been written over by a later read
C40_Witness ==
    \E c \in Conns : \E i \in EchoedSlices(c) :
        /\ FrameBytes(c, parsed[c][i].gen, parsed[c][i].Args[1]) # parsed[c][i].Args[1].data
        /\ ReplyAt(c, i) = BulkReply(ItemAt(c, i).args[1].data)
        /\ Len(results[c]) > i

=============================================================================
